---- MODULE Spec2Model ----
(***************************************************************************)
(* CFG -> Chomsky-Schutzenberger converter: grammar text parser            *)
(* (grammar.py), CS representation builder (cs_representation.py) and      *)
(* parse tree constructor (parse_tree.py).                                 *)
(*                                                                         *)
(* A Python str is a sequence of one-character strings; positions in the   *)
(* operators are 0-based as in the source (At(s, i) is s[i]).              *)
(***************************************************************************)
EXTENDS Integers, Sequences, FiniteSets, TLC

(***************************************************************************)
(* Characters: classification and code points (str.isspace, str.isdigit,   *)
(* str.isalpha, ordering used by sorted()).                                *)
(***************************************************************************)
AsciiLower == <<"a","b","c","d","e","f","g","h","i","j","k","l","m",
                "n","o","p","q","r","s","t","u","v","w","x","y","z">>
AsciiUpper == <<"A","B","C","D","E","F","G","H","I","J","K","L","M",
                "N","O","P","Q","R","S","T","U","V","W","X","Y","Z">>
AsciiDigit == <<"0","1","2","3","4","5","6","7","8","9">>

Range(f) == {f[i] : i \in DOMAIN f}

IndexOf(seq, c) == CHOOSE i \in DOMAIN seq : seq[i] = c

IsSpace(c) == c \in {" ", "\t", "\n"}
IsDigit(c) == c \in Range(AsciiDigit)
IsAlpha(c) == c \in Range(AsciiLower) \cup Range(AsciiUpper) \cup {"ε"}
IsAlnum(c) == IsAlpha(c) \/ IsDigit(c)

Ord(c) ==
  IF c \in Range(AsciiLower) THEN 96 + IndexOf(AsciiLower, c)
  ELSE IF c \in Range(AsciiUpper) THEN 64 + IndexOf(AsciiUpper, c)
  ELSE IF c \in Range(AsciiDigit) THEN 47 + IndexOf(AsciiDigit, c)
  ELSE CASE c = "\t" -> 9   [] c = "\n" -> 10  [] c = " " -> 32
         [] c = "\"" -> 34  [] c = "(" -> 40   [] c = ")" -> 41
         [] c = "*" -> 42   [] c = "+" -> 43   [] c = "-" -> 45
         [] c = "<" -> 60   [] c = ">" -> 62   [] c = "[" -> 91
         [] c = "\\" -> 92  [] c = "]" -> 93   [] c = "_" -> 95
         [] c = "|" -> 124  [] c = "ε" -> 949  [] c = "→" -> 8594
         [] c = "⊥" -> 8869

\* str < str of Python: lexicographic by code point.
RECURSIVE StrLess(_, _)
StrLess(s, t) ==
  IF t = <<>> THEN FALSE
  ELSE IF s = <<>> THEN TRUE
  ELSE IF Head(s) = Head(t) THEN StrLess(Tail(s), Tail(t))
  ELSE Ord(Head(s)) < Ord(Head(t))

\* sorted(set of str)
RECURSIVE Sorted(_)
Sorted(S) ==
  IF S = {} THEN <<>>
  ELSE LET m == CHOOSE x \in S : \A y \in S \ {x} : StrLess(x, y)
       IN  <<m>> \o Sorted(S \ {m})

(***************************************************************************)
(* str methods used by the source.                                         *)
(***************************************************************************)
At(s, i) == s[i + 1]

\* s[i:j]
Slice(s, i, j) == SubSeq(s, i + 1, j)

RECURSIVE LStrip(_)
LStrip(s) == IF s # <<>> /\ IsSpace(Head(s)) THEN LStrip(Tail(s)) ELSE s

RECURSIVE RStrip(_)
RStrip(s) ==
  IF s # <<>> /\ IsSpace(s[Len(s)]) THEN RStrip(SubSeq(s, 1, Len(s) - 1)) ELSE s

Strip(s) == RStrip(LStrip(s))

\* s.startswith(p, pos)
StartsWith(s, p, pos) ==
  /\ pos + Len(p) <= Len(s)
  /\ SubSeq(s, pos + 1, pos + Len(p)) = p

EndsWith(s, p) == Len(p) <= Len(s) /\ StartsWith(s, p, Len(s) - Len(p))

\* s.find(sub, from): -1 when absent
Find(s, sub, from) ==
  LET hits == {i \in from .. Len(s) : StartsWith(s, sub, i)}
  IN  IF hits = {} THEN -1 ELSE CHOOSE i \in hits : \A j \in hits : i <= j

Contains(s, sub) == Find(s, sub, 0) # -1

\* text.splitlines()
RECURSIVE SplitLines(_)
SplitLines(text) ==
  IF text = <<>> THEN <<>>
  ELSE LET i == Find(text, <<"\n">>, 0)
       IN  IF i = -1 THEN <<text>>
           ELSE <<Slice(text, 0, i)>> \o SplitLines(Slice(text, i + 1, Len(text)))

\* "".join(parts) and sep.join(parts)
RECURSIVE Join(_, _)
Join(sep, parts) ==
  IF parts = <<>> THEN <<>>
  ELSE IF Len(parts) = 1 THEN parts[1]
  ELSE parts[1] \o sep \o Join(sep, Tail(parts))

\* sorted(items, key=len, reverse=True): stable, so items of equal length keep
\* the order of items (the iteration order of the set they come from).
RECURSIVE SortedByLenDesc(_)
SortedByLenDesc(items) ==
  IF items = <<>> THEN <<>>
  ELSE LET k == CHOOSE i \in DOMAIN items :
                  /\ \A j \in DOMAIN items : Len(items[j]) <= Len(items[i])
                  /\ \A j \in 1 .. i - 1 : Len(items[j]) < Len(items[i])
       IN  <<items[k]>> \o
           SortedByLenDesc(SubSeq(items, 1, k - 1) \o SubSeq(items, k + 1, Len(items)))

\* The orders in which iterating a Python set can yield its elements.
IterationOrders(S) ==
  {f \in [1 .. Cardinality(S) -> S] : \A i, j \in DOMAIN f : f[i] = f[j] => i = j}

(***************************************************************************)
(* grammar.py                                                              *)
(***************************************************************************)
\* Mutation of EPSILON_SYMBOLS: only "" is left.
EPSILON_SYMBOLS_quotes_only == {<<"\"","\"">>}

EPSILON_SYMBOLS == {<<"ε">>, <<"e","p","s","i","l","o","n">>, <<"\"","\"">>}

ARROW_SYMBOLS == << <<"-",">">>, <<"→">> >>

\* GrammarError(message, line_no); line_no None is NoLine.  The messages of
\* the source are abbreviated: "empty input", "missing arrow", "empty lhs",
\* "missing rhs", "continuation without rule", "no start symbol",
\* "unterminated quote", "empty literal", "empty rhs", "bad symbol".
NoLine == 0

GrammarError(message, line_no) ==
  [ok |-> FALSE, message |-> message, line_no |-> line_no, value |-> <<>>]

Ok(v) == [ok |-> TRUE, message |-> "", line_no |-> NoLine, value |-> v]

split_rule_arrow(line, line_no) ==
  LET arrow == IF Contains(line, ARROW_SYMBOLS[1]) THEN ARROW_SYMBOLS[1]
               ELSE ARROW_SYMBOLS[2]
      i == Find(line, arrow, 0)
  IN  IF i = -1
      THEN GrammarError("missing arrow", line_no)
      ELSE Ok(<<Slice(line, 0, i), Slice(line, i + Len(arrow), Len(line))>>)

RECURSIVE split_alternatives_loop(_, _, _, _, _)
split_alternatives_loop(rhs, i, parts, current, in_quotes) ==
  IF i >= Len(rhs)
  THEN [in_quotes |-> in_quotes, parts |-> Append(parts, Strip(current))]
  ELSE LET ch == At(rhs, i) IN
       IF ch = "\"" /\ (i = 0 \/ At(rhs, i - 1) # "\\")
       THEN split_alternatives_loop(rhs, i + 1, parts, Append(current, ch), ~in_quotes)
       ELSE IF ch = "|" /\ ~in_quotes
       THEN split_alternatives_loop(rhs, i + 1, Append(parts, Strip(current)), <<>>, in_quotes)
       ELSE split_alternatives_loop(rhs, i + 1, parts, Append(current, ch), in_quotes)

split_alternatives(rhs, line_no) ==
  LET r == split_alternatives_loop(rhs, 0, <<>>, <<>>, FALSE)
  IN  IF r.in_quotes
      THEN GrammarError("unterminated quote", line_no)
      ELSE Ok(r.parts)

\* Mutation of normalize_nonterminal: the angle brackets are kept.
normalize_nonterminal_keep(token) == Strip(token)

normalize_nonterminal(token) ==
  LET t == Strip(token)
      inner == Strip(Slice(t, 1, Len(t) - 1))
  IN  IF Len(t) >= 3 /\ StartsWith(t, <<"<">>, 0) /\ EndsWith(t, <<">">>) /\ inner # <<>>
      THEN inner
      ELSE t

\* None of Python, where the source uses it for a str.
None == <<>>

is_ident_start(ch) == IsAlpha(ch) \/ ch = "_"

is_ident_char(ch) == IsAlnum(ch) \/ ch = "_"

has_ident_boundary(alt, end_pos) ==
  IF end_pos >= Len(alt) THEN TRUE ELSE ~is_ident_char(At(alt, end_pos))

\* Mutation of nt_list: the nonterminals are tried in the set's iteration
\* order, not longest first.
nt_list_unsorted(nonterminals) == nonterminals

\* nt_list = sorted(nonterminals, key=len, reverse=True); nonterminals is the
\* set in its iteration order (a sequence).
nt_list(nonterminals) == SortedByLenDesc(nonterminals)

\* The loop of match_nonterminal_at over nt_list from index k on.
RECURSIVE match_nonterminal_loop(_, _, _, _)
match_nonterminal_loop(alt, list, pos, k) ==
  IF k > Len(list) THEN None
  ELSE LET nt == list[k] IN
       IF /\ StartsWith(alt, nt, pos)
          /\ ~ ( /\ Len(nt) > 1
                 /\ (IsAlpha(nt[1]) \/ nt[1] = "_")
                 /\ ~has_ident_boundary(alt, pos + Len(nt)) )
       THEN nt
       ELSE match_nonterminal_loop(alt, list, pos, k + 1)

match_nonterminal_at(alt, nonterminals, pos) ==
  match_nonterminal_loop(alt, nt_list(nonterminals), pos, 1)

\* The inner while of the quoted-literal branch: returns the position j where
\* the scan stopped and the collected literal_chars.
RECURSIVE scan_literal(_, _, _)
scan_literal(alt, j, literal_chars) ==
  IF j >= Len(alt) THEN [j |-> j, literal_chars |-> literal_chars]
  ELSE LET cj == At(alt, j) IN
       IF cj = "\\" /\ j + 1 < Len(alt) /\ At(alt, j + 1) \in {"\"", "\\"}
       THEN scan_literal(alt, j + 2, Append(literal_chars, At(alt, j + 1)))
       ELSE IF cj = "\"" THEN [j |-> j, literal_chars |-> literal_chars]
       ELSE scan_literal(alt, j + 1, Append(literal_chars, cj))

\* The inner while of the identifier branch: the end of the identifier run.
RECURSIVE ident_end(_, _, _)
ident_end(alt, nonterminals, j) ==
  IF /\ j < Len(alt)
     /\ is_ident_char(At(alt, j))
     /\ match_nonterminal_at(alt, nonterminals, j) = None
  THEN ident_end(alt, nonterminals, j + 1)
  ELSE j

RECURSIVE tokenize_rhs_lex_loop(_, _, _, _, _)
tokenize_rhs_lex_loop(alt, nonterminals, line_no, i, tokens) ==
  IF i >= Len(alt) THEN Ok(tokens)
  ELSE LET ch == At(alt, i) IN
    IF IsSpace(ch)
    THEN tokenize_rhs_lex_loop(alt, nonterminals, line_no, i + 1, tokens)
    ELSE IF ch = "<"
    THEN LET j == Find(alt, <<">">>, i + 1) IN
         IF j = -1
         THEN tokenize_rhs_lex_loop(alt, nonterminals, line_no, i + 1,
                                    Append(tokens, <<ch>>))
         ELSE tokenize_rhs_lex_loop(alt, nonterminals, line_no, j + 1,
                Append(tokens, normalize_nonterminal(Slice(alt, i, j + 1))))
    ELSE IF ch = "\""
    THEN LET lit == scan_literal(alt, i + 1, <<>>) IN
         IF lit.j >= Len(alt) THEN GrammarError("unterminated quote", line_no)
         ELSE IF lit.literal_chars = <<>> THEN GrammarError("empty literal", line_no)
         ELSE tokenize_rhs_lex_loop(alt, nonterminals, line_no, lit.j + 1,
                                    Append(tokens, lit.literal_chars))
    ELSE LET nt == match_nonterminal_at(alt, nonterminals, i) IN
    IF nt # None
    THEN tokenize_rhs_lex_loop(alt, nonterminals, line_no, i + Len(nt),
                               Append(tokens, nt))
    ELSE IF IsDigit(ch)
    THEN tokenize_rhs_lex_loop(alt, nonterminals, line_no, i + 1,
                               Append(tokens, <<ch>>))
    ELSE IF is_ident_start(ch)
    THEN LET j == ident_end(alt, nonterminals, i + 1) IN
         tokenize_rhs_lex_loop(alt, nonterminals, line_no, j,
                               Append(tokens, Slice(alt, i, j)))
    ELSE tokenize_rhs_lex_loop(alt, nonterminals, line_no, i + 1,
                               Append(tokens, <<ch>>))

tokenize_rhs_lex(alt, nonterminals, line_no) ==
  IF alt = <<>> THEN Ok(<<>>)
  ELSE tokenize_rhs_lex_loop(alt, nonterminals, line_no, 0, <<>>)

\* Mutation of tokenize_rhs: the parts are not validated.
tokenize_rhs_unchecked(alt, line_no, nonterminals) ==
  LET parts == tokenize_rhs_lex(alt, nonterminals, line_no) IN
  IF ~parts.ok THEN parts
  ELSE IF parts.value = <<>> THEN GrammarError("empty rhs", line_no)
  ELSE parts

tokenize_rhs(alt, line_no, nonterminals) ==
  LET parts == tokenize_rhs_lex(alt, nonterminals, line_no) IN
  IF ~parts.ok THEN parts
  ELSE IF parts.value = <<>> THEN GrammarError("empty rhs", line_no)
  ELSE IF \E k \in DOMAIN parts.value :
            \/ Contains(parts.value[k], <<"-", ">">>)
            \/ Contains(parts.value[k], <<"→">>)
            \/ Contains(parts.value[k], <<"|">>)
  THEN GrammarError("bad symbol", line_no)
  ELSE parts

\* Mutation of _collect_terminals: the test "symbol not in self.nonterminals"
\* is dropped.
_collect_terminals_unfiltered(productions, nonterminals) ==
  UNION { UNION { {productions[p].alts[a][k] : k \in DOMAIN productions[p].alts[a]}
                  : a \in DOMAIN productions[p].alts }
          : p \in DOMAIN productions }

\* Grammar._collect_terminals: productions is the dict as the sequence of its
\* items (key order = insertion order), each [lhs, alts].
_collect_terminals(productions, nonterminals) ==
  UNION { UNION { {productions[p].alts[a][k] : k \in DOMAIN productions[p].alts[a]}
                    \ nonterminals
                  : a \in DOMAIN productions[p].alts }
          : p \in DOMAIN productions }

\* Grammar.__init__
Grammar(productions, start_symbol) ==
  LET nonterminals == {productions[p].lhs : p \in DOMAIN productions} IN
  [productions  |-> productions,
   start_symbol |-> start_symbol,
   nonterminals |-> nonterminals,
   terminals    |-> _collect_terminals(productions, nonterminals)]

\* First loop of parse_grammar (lines 52-88) from line idx on.  st holds the
\* locals: keys (the keys of productions in insertion order), start_symbol,
\* raw_rules (items [idx, lhs, alternatives]) and current_lhs.
RECURSIVE parse_grammar_lines(_, _, _)
parse_grammar_lines(lines, idx, st) ==
  IF idx > Len(lines) THEN Ok(st)
  ELSE LET line == Strip(lines[idx]) IN
    IF line = <<>> THEN parse_grammar_lines(lines, idx + 1, st)
    ELSE IF \E k \in DOMAIN ARROW_SYMBOLS : Contains(line, ARROW_SYMBOLS[k])
    THEN LET sp  == split_rule_arrow(line, idx).value
             lhs == normalize_nonterminal(Strip(sp[1]))
             alternatives == split_alternatives(sp[2], idx)
         IN  IF lhs = <<>> THEN GrammarError("empty lhs", idx)
             ELSE IF ~alternatives.ok THEN alternatives
             ELSE IF alternatives.value = <<>> THEN GrammarError("missing rhs", idx)
             ELSE parse_grammar_lines(lines, idx + 1,
                    [keys |-> IF \E k \in DOMAIN st.keys : st.keys[k] = lhs
                              THEN st.keys ELSE Append(st.keys, lhs),
                     start_symbol |-> IF st.start_symbol = None THEN lhs
                                      ELSE st.start_symbol,
                     raw_rules |-> Append(st.raw_rules,
                        [idx |-> idx, lhs |-> lhs, alternatives |-> alternatives.value]),
                     current_lhs |-> lhs])
    ELSE IF StartsWith(line, <<"|">>, 0)
    THEN LET alternatives == split_alternatives(Slice(line, 1, Len(line)), idx) IN
         IF st.current_lhs = None
         THEN GrammarError("continuation without rule", idx)
         ELSE IF ~alternatives.ok THEN alternatives
         ELSE IF alternatives.value = <<>> THEN GrammarError("missing rhs", idx)
         ELSE parse_grammar_lines(lines, idx + 1,
                [st EXCEPT !.raw_rules = Append(@,
                   [idx |-> idx, lhs |-> st.current_lhs,
                    alternatives |-> alternatives.value])])
    ELSE GrammarError("missing arrow", idx)

\* Second loop of parse_grammar (lines 95-102) from raw rule r, alternative a
\* on: done is the list of [lhs, symbols] appended so far.
\* Mutation of parse_grammar_rules: a right-hand side is tokenized against
\* the left-hand sides of the rules read up to its own rule.
RECURSIVE parse_grammar_rules_seen_so_far(_, _, _, _, _)
parse_grammar_rules_seen_so_far(raw_rules, nonterminals, r, a, done) ==
  IF r > Len(raw_rules) THEN Ok(done)
  ELSE IF a > Len(raw_rules[r].alternatives)
  THEN parse_grammar_rules_seen_so_far(raw_rules, nonterminals, r + 1, 1, done)
  ELSE LET alt  == raw_rules[r].alternatives[a]
           seen == SelectSeq(nonterminals,
                     LAMBDA nt : \E q \in 1 .. r : raw_rules[q].lhs = nt)
       IN
       IF alt \in EPSILON_SYMBOLS \/ alt = <<>>
       THEN parse_grammar_rules_seen_so_far(raw_rules, nonterminals, r, a + 1,
              Append(done, [lhs |-> raw_rules[r].lhs, symbols |-> <<>>]))
       ELSE LET symbols == tokenize_rhs(alt, raw_rules[r].idx, seen) IN
            IF ~symbols.ok THEN symbols
            ELSE parse_grammar_rules_seen_so_far(raw_rules, nonterminals, r, a + 1,
                   Append(done, [lhs |-> raw_rules[r].lhs, symbols |-> symbols.value]))

RECURSIVE parse_grammar_rules(_, _, _, _, _)
parse_grammar_rules(raw_rules, nonterminals, r, a, done) ==
  IF r > Len(raw_rules) THEN Ok(done)
  ELSE IF a > Len(raw_rules[r].alternatives)
  THEN parse_grammar_rules(raw_rules, nonterminals, r + 1, 1, done)
  ELSE LET alt == raw_rules[r].alternatives[a] IN
       IF alt \in EPSILON_SYMBOLS \/ alt = <<>>
       THEN parse_grammar_rules(raw_rules, nonterminals, r, a + 1,
              Append(done, [lhs |-> raw_rules[r].lhs, symbols |-> <<>>]))
       ELSE LET symbols == tokenize_rhs(alt, raw_rules[r].idx, nonterminals) IN
            IF ~symbols.ok THEN symbols
            ELSE parse_grammar_rules(raw_rules, nonterminals, r, a + 1,
                   Append(done, [lhs |-> raw_rules[r].lhs, symbols |-> symbols.value]))

\* Mutation of SymbolsFor: each alternative is put before the ones recorded.
RECURSIVE SymbolsFor_prepend(_, _)
SymbolsFor_prepend(done, lhs) ==
  IF done = <<>> THEN <<>>
  ELSE SymbolsFor_prepend(Tail(done), lhs)
       \o (IF Head(done).lhs = lhs THEN <<Head(done).symbols>> ELSE <<>>)

\* productions[lhs] after the second loop: the symbols appended for lhs, in
\* the order of the appends.
RECURSIVE SymbolsFor(_, _)
SymbolsFor(done, lhs) ==
  IF done = <<>> THEN <<>>
  ELSE (IF Head(done).lhs = lhs THEN <<Head(done).symbols>> ELSE <<>>)
       \o SymbolsFor(Tail(done), lhs)

\* Lines 93-104 of parse_grammar: first is the outcome of the first loop,
\* nonterminals the set of line 93 in its iteration order.
parse_grammar_second(first, nonterminals) ==
  LET keys   == first.keys
      second == parse_grammar_rules(first.raw_rules, nonterminals, 1, 1, <<>>)
  IN  IF ~second.ok THEN second
      ELSE Ok(Grammar([k \in DOMAIN keys |->
                         [lhs |-> keys[k],
                          alts |-> SymbolsFor(second.value, keys[k])]],
                      first.start_symbol))

\* parse_grammar(text): the values the call can return or raise, one for each
\* order in which the set nonterminals (line 93) can be iterated.
parse_grammar(text) ==
  IF Strip(text) = <<>> THEN {GrammarError("empty input", NoLine)}
  ELSE LET first == parse_grammar_lines(SplitLines(text), 1,
                      [keys |-> <<>>, start_symbol |-> None,
                       raw_rules |-> <<>>, current_lhs |-> None])
       IN
       IF ~first.ok THEN {first}
       ELSE IF first.value.start_symbol = None
       THEN {GrammarError("no start symbol", NoLine)}
       ELSE {parse_grammar_second(first.value, nonterminals) :
               nonterminals \in IterationOrders(Range(first.value.keys))}

(***************************************************************************)
(* cs_representation.py                                                    *)
(***************************************************************************)
EPSILON_DISPLAY == <<"ε">>

BOTTOM_MARKER == <<"⊥">>

_open(sym) == <<"[">> \o sym

_close(sym) == <<"]">> \o sym

\* add_all of _build_stack_alphabet: append the items not yet in ordered.
RECURSIVE add_all(_, _)
add_all(ordered, items) ==
  IF items = <<>> THEN ordered
  ELSE add_all(IF Head(items) \in Range(ordered) THEN ordered
               ELSE Append(ordered, Head(items)),
               Tail(items))

\* Mutation of _build_stack_alphabet: plain concatenation, no "not in ordered".
_build_stack_alphabet_no_dedup(grammar) ==
  Sorted(grammar.nonterminals) \o Sorted(grammar.terminals) \o <<BOTTOM_MARKER>>

_build_stack_alphabet(grammar) ==
  add_all(add_all(add_all(<<>>, Sorted(grammar.nonterminals)),
                  Sorted(grammar.terminals)),
          <<BOTTOM_MARKER>>)

\* h[key] = value on a dict (a function on its key set).
DictSet(h, key, value) ==
  [x \in (DOMAIN h) \cup {key} |-> IF x = key THEN value ELSE h[x]]

\* for t in sorted(grammar.terminals): h[_open(t)] = ε; h[_close(t)] = t
RECURSIVE SetTerminals(_, _)
SetTerminals(h, ts) ==
  IF ts = <<>> THEN h
  ELSE SetTerminals(DictSet(DictSet(h, _open(Head(ts)), EPSILON_DISPLAY),
                            _close(Head(ts)), Head(ts)),
                    Tail(ts))

\* for nt in sorted(grammar.nonterminals): h[_open(nt)] = h[_close(nt)] = ε
RECURSIVE SetNonterminals(_, _)
SetNonterminals(h, nts) ==
  IF nts = <<>> THEN h
  ELSE SetNonterminals(DictSet(DictSet(h, _open(Head(nts)), EPSILON_DISPLAY),
                               _close(Head(nts)), EPSILON_DISPLAY),
                       Tail(nts))

build_homomorphism(grammar) ==
  LET h1 == SetTerminals(<<>>, Sorted(grammar.terminals))
      h2 == SetNonterminals(h1, Sorted(grammar.nonterminals))
  IN  DictSet(DictSet(h2, _open(BOTTOM_MARKER), EPSILON_DISPLAY),
              _close(BOTTOM_MARKER), EPSILON_DISPLAY)

\* reversed(rhs)
Reversed(rhs) == [k \in 1 .. Len(rhs) |-> rhs[Len(rhs) + 1 - k]]

\* Mutation of expansion_parts: the right-hand side is pushed unreversed.
expansion_parts_unreversed(lhs, rhs) ==
  <<_close(lhs)>> \o [k \in 1 .. Len(rhs) |-> _open(rhs[k])]

\* parts of one expansion step: [_close(lhs)] + [_open(sym) for reversed(rhs)]
expansion_parts(lhs, rhs) ==
  <<_close(lhs)>> \o [k \in 1 .. Len(rhs) |-> _open(Reversed(rhs)[k])]

\* The bracket sequences behind step_alts, before " ".join: the expansions of
\* every production (dict order, then alternative order), then the terminal
\* matches (sorted).
RECURSIVE expansion_steps(_)
expansion_steps(productions) ==
  IF productions = <<>> THEN <<>>
  ELSE [a \in DOMAIN Head(productions).alts |->
          expansion_parts(Head(productions).lhs, Head(productions).alts[a])]
       \o expansion_steps(Tail(productions))

step_parts(grammar) ==
  expansion_steps(grammar.productions)
  \o [k \in 1 .. Cardinality(grammar.terminals) |->
        <<_close(Sorted(grammar.terminals)[k])>>]

\* The tokens of the envelope r_regex.
r_parts(grammar) ==
  <<_open(BOTTOM_MARKER), _open(grammar.start_symbol),
    <<"(","S","T","E","P",")","*">>, _close(BOTTOM_MARKER)>>

\* returns <<r_regex, step_regex>>
build_r_components(grammar) ==
  LET parts == step_parts(grammar)
      step_alts == [k \in DOMAIN parts |-> Join(<<" ">>, parts[k])]
      step_regex ==
        IF step_alts = <<>> THEN EPSILON_DISPLAY
        ELSE Join(<<" ", "|", " ">>,
                  [k \in DOMAIN step_alts |-> <<"(">> \o step_alts[k] \o <<")">>])
  IN  <<Join(<<" ">>, r_parts(grammar)), step_regex>>

build_cs_representation(grammar) ==
  LET stack_symbols == _build_stack_alphabet(grammar) IN
  [stack_symbols |-> stack_symbols,
   gamma_pairs   |-> [k \in DOMAIN stack_symbols |->
                        <<_open(stack_symbols[k]), _close(stack_symbols[k]),
                          stack_symbols[k]>>],
   r_regex       |-> build_r_components(grammar)[1],
   step_regex    |-> build_r_components(grammar)[2],
   homomorphism  |-> build_homomorphism(grammar)]

(***************************************************************************)
(* parse_tree.py                                                           *)
(***************************************************************************)
\* ParseError(message): "empty input string" (line 111), "no parse" (line 155)
ParseError(message) == [ok |-> FALSE, message |-> message, value |-> <<>>]

\* ParseNode(symbol, children); the epsilon leaf marker child is the str
\* EPSILON_DISPLAY, kept apart from nodes as [marker |-> ...].
ParseNode(symbol, children) == [symbol |-> symbol, children |-> children]

EpsilonLeaf == [marker |-> EPSILON_DISPLAY]

\* seq[:n]
Take(seq, n) == SubSeq(seq, 1, IF n < Len(seq) THEN n ELSE Len(seq))

\* list(text)
CharList(text) == [k \in DOMAIN text |-> <<text[k]>>]

\* text.split(): the maximal runs of non-whitespace characters
RECURSIVE SplitWs(_, _, _)
SplitWs(text, i, current) ==
  IF i >= Len(text) THEN (IF current = <<>> THEN <<>> ELSE <<current>>)
  ELSE IF IsSpace(At(text, i))
  THEN (IF current = <<>> THEN <<>> ELSE <<current>>) \o SplitWs(text, i + 1, <<>>)
  ELSE SplitWs(text, i + 1, Append(current, At(text, i)))

\* dfs(pos) of _segment_text_with_terminals; dfs_terms is its loop over
\* term_list from index k on with the variants collected so far.  memo only
\* caches dfs(pos), which depends on pos alone.
RECURSIVE dfs(_, _, _, _)
RECURSIVE dfs_terms(_, _, _, _, _, _)
dfs(text, term_list, max_variants, pos) ==
  IF pos = Len(text) THEN << <<>> >>
  ELSE dfs_terms(text, term_list, max_variants, pos, 1, <<>>)

dfs_terms(text, term_list, max_variants, pos, k, variants) ==
  IF k > Len(term_list) THEN variants
  ELSE LET t == term_list[k] IN
       IF ~StartsWith(text, t, pos)
       THEN dfs_terms(text, term_list, max_variants, pos, k + 1, variants)
       ELSE LET suffixes == dfs(text, term_list, max_variants, pos + Len(t))
                room     == max_variants - Len(variants)
                added    == [j \in 1 .. Len(Take(suffixes, room)) |->
                               <<t>> \o suffixes[j]]
            IN  IF suffixes # <<>> /\ Len(suffixes) >= room
                THEN variants \o added
                ELSE dfs_terms(text, term_list, max_variants, pos, k + 1,
                               variants \o added)

\* Mutation of _segment_text_with_terminals: only the first (longest-match
\* first) segmentation is returned.
_segment_text_first_only(text, terminals, max_variants) ==
  IF text = <<>> THEN << <<>> >>
  ELSE Take(dfs(text,
                SortedByLenDesc(SelectSeq(terminals, LAMBDA t : t # <<>>)),
                max_variants, 0), 1)

\* Mutation of _segment_text_with_terminals: the shortest terminal is tried
\* first.
_segment_text_shortest_first(text, terminals, max_variants) ==
  IF text = <<>> THEN << <<>> >>
  ELSE LET term_list == SortedByLenDesc(SelectSeq(terminals, LAMBDA t : t # <<>>))
       IN  dfs(text, [k \in DOMAIN term_list |-> term_list[Len(term_list) + 1 - k]],
               max_variants, 0)

\* terminals is the set in its iteration order (a sequence).
_segment_text_with_terminals(text, terminals, max_variants) ==
  IF text = <<>> THEN << <<>> >>
  ELSE dfs(text,
           SortedByLenDesc(SelectSeq(terminals, LAMBDA t : t # <<>>)),
           max_variants, 0)

\* Mutation of Unique: a duplicate keeps the position of its last occurrence.
RECURSIVE Unique_keep_last(_, _)
Unique_keep_last(variants, unique) ==
  IF variants = <<>> THEN unique
  ELSE Unique_keep_last(Tail(variants),
         Append(SelectSeq(unique, LAMBDA v : v # Head(variants)), Head(variants)))

\* The dedup loop at the end of _tokenize_input_variants.
RECURSIVE Unique(_, _)
Unique(variants, unique) ==
  IF variants = <<>> THEN unique
  ELSE Unique(Tail(variants),
              IF Head(variants) \in Range(unique) THEN unique
              ELSE Append(unique, Head(variants)))

max_variants_default == 256

\* terminals: set(grammar.terminals) in its iteration order.
_tokenize_input_variants(text, terminals) ==
  LET raw == Strip(text) IN
  IF raw = <<>> THEN <<>>
  ELSE IF Contains(raw, <<" ">>)
  THEN LET spaced  == SplitWs(raw, 0, <<>>)
           compact == Join(<<>>, spaced)
       IN  Unique( (IF spaced # <<>> THEN <<spaced>> ELSE <<>>)
                   \o _segment_text_with_terminals(compact, terminals,
                                                   max_variants_default)
                   \o (IF compact # <<>> THEN <<CharList(compact), <<compact>>>>
                       ELSE <<>>),
                   <<>>)
  ELSE Unique( _segment_text_with_terminals(raw, terminals, max_variants_default)
               \o <<CharList(raw), <<raw>>>>,
               <<>>)

\* grammar.productions.get(symbol, [])
ProductionsGet(grammar, symbol) ==
  LET hits == {p \in DOMAIN grammar.productions : grammar.productions[p].lhs = symbol}
  IN  IF hits = {} THEN <<>> ELSE grammar.productions[CHOOSE p \in hits : TRUE].alts

\* sum(lists, []): concatenation of a list of lists
RECURSIVE Concat(_)
Concat(lists) == IF lists = <<>> THEN <<>> ELSE Head(lists) \o Concat(Tail(lists))

Max(a, b) == IF a >= b THEN a ELSE b

\* parse_symbol(symbol, position, steps_left) of parse_string for one token
\* sequence returns the list of results [node, pos].  Its value depends on
\* (symbol, position, steps_left) alone, which is what memo is keyed by, and
\* every nested call has steps_left - 1.  The model fills memo by layers:
\* memo_layer k maps <<symbol, position>> to the result for steps_left = k and
\* is computed from layer k - 1 (below) exactly as the body of parse_symbol
\* computes it from its nested calls.
GrammarSymbols(grammar) == grammar.terminals \cup grammar.nonterminals

\* Which object child_node of line 141 is: element number j of the list that
\* parse_symbol(part, pos, steps_left - 1) returned, which is the list stored
\* in memo under that key (every element of a list parse_symbol returns is a
\* ParseNode created by that call, at line 129, 135 or 143).  part is the
\* symbol of the node, steps_left - 1 follows from the depth in the tree.
child_object(current, results, j) ==
  [key   |-> <<results[j].node.symbol, current.pos>>,
   index |-> j,
   kids  |-> results[j].kids]

\* Mutation of extend_node: the child is put before the children collected so
\* far.
extend_node_prepend(symbol, current, results) ==
  [j \in DOMAIN results |->
     [node |-> ParseNode(symbol, <<results[j].node>> \o current.node.children),
      pos  |-> results[j].pos,
      kids |-> <<child_object(current, results, j)>> \o current.kids]]

\* [ParseNode(symbol, node.children + [child_node]), next_pos) for the results
\* of one nested call.  kids names, child by child, the ParseNode objects
\* that node.children holds (values alone do not tell two equal nodes from
\* one node held twice).
extend_node(symbol, current, results) ==
  [j \in DOMAIN results |->
     [node |-> ParseNode(symbol, Append(current.node.children, results[j].node)),
      pos  |-> results[j].pos,
      kids |-> Append(current.kids, child_object(current, results, j))]]

\* The nested call parse_symbol(part, pos, steps_left - 1) read from the layer
\* below (a symbol that is neither terminal nor nonterminal has no results).
nested_call(below, part, pos) ==
  IF <<part, pos>> \in DOMAIN below THEN below[<<part, pos>>] ELSE <<>>

\* The loop over the parts of one right-hand side, from part k on.
RECURSIVE fold_parts(_, _, _, _, _)
fold_parts(below, symbol, rhs, k, current_nodes) ==
  IF k > Len(rhs) THEN current_nodes
  ELSE fold_parts(below, symbol, rhs, k + 1,
         Concat([c \in DOMAIN current_nodes |->
                   extend_node(symbol, current_nodes[c],
                               nested_call(below, rhs[k], current_nodes[c].pos))]))

\* The body of parse_symbol for steps_left > 0.
parse_symbol_body(grammar, tokens, below, symbol, position) ==
  IF symbol \in grammar.terminals
  THEN IF position < Len(tokens) /\ At(tokens, position) = symbol
       THEN <<[node |-> ParseNode(symbol, <<>>), pos |-> position + 1, kids |-> <<>>]>>
       ELSE <<>>
  ELSE IF symbol \in grammar.nonterminals
  THEN LET alts == ProductionsGet(grammar, symbol) IN
       Concat([a \in DOMAIN alts |->
                 IF alts[a] = <<>>
                 THEN <<[node |-> ParseNode(symbol, <<EpsilonLeaf>>), pos |-> position,
                         kids |-> <<>>]>>
                 ELSE fold_parts(below, symbol, alts[a], 1,
                                 <<[node |-> ParseNode(symbol, <<>>), pos |-> position,
                                    kids |-> <<>>]>>)])
  ELSE <<>>

MemoKeys(grammar, tokens) == GrammarSymbols(grammar) \X (0 .. Len(tokens))

\* Layer k + 1 from layer k.
next_layer(grammar, tokens, below) ==
  [key \in MemoKeys(grammar, tokens) |->
     parse_symbol_body(grammar, tokens, below, key[1], key[2])]

\* Layers k .. steps_left, given layer k.  A layer equal to the one below it
\* repeats from there on (each layer is a function of the one below), so the
\* iteration stops there.
RECURSIVE memo_layer(_, _, _, _, _)
memo_layer(grammar, tokens, k, layer, steps_left) ==
  IF k >= steps_left THEN layer
  ELSE LET next == next_layer(grammar, tokens, layer) IN
       IF next = layer THEN layer
       ELSE memo_layer(grammar, tokens, k + 1, next, steps_left)

parse_symbol(grammar, tokens, symbol, position, steps_left) ==
  IF steps_left <= 0 THEN <<>>
  ELSE nested_call(memo_layer(grammar, tokens, 0,
                              [key \in MemoKeys(grammar, tokens) |-> <<>>],
                              steps_left),
                   symbol, position)

\* max_steps of parse_string
max_steps(tokens) == Max(80, Len(tokens) * 20)

\* Mutation of parse_tokens: the last complete parse is returned.
parse_tokens_last_result(grammar, tokens) ==
  LET parses == parse_symbol(grammar, tokens, grammar.start_symbol, 0, max_steps(tokens))
      full   == {k \in DOMAIN parses : parses[k].pos = Len(tokens)}
  IN  IF full = {} THEN None
      ELSE LET k == CHOOSE k \in full : \A j \in full : k >= j IN
           [node    |-> parses[k].node,
            objects |-> [key   |-> <<grammar.start_symbol, 0>>,
                         index |-> k,
                         kids  |-> parses[k].kids]]

\* Mutation of parse_tokens: the first result is returned whether or not it
\* ends at len(tokens).
parse_tokens_first_result(grammar, tokens) ==
  LET parses == parse_symbol(grammar, tokens, grammar.start_symbol, 0, max_steps(tokens))
  IN  IF parses = <<>> THEN None
      ELSE [node    |-> parses[1].node,
            objects |-> [key   |-> <<grammar.start_symbol, 0>>,
                         index |-> 1,
                         kids  |-> parses[1].kids]]

\* One iteration of the loop over token_variants: the first complete parse of
\* tokens (the node and which object it is), or None.
parse_tokens(grammar, tokens) ==
  LET parses == parse_symbol(grammar, tokens, grammar.start_symbol, 0, max_steps(tokens))
      full   == {k \in DOMAIN parses : parses[k].pos = Len(tokens)}
  IN  IF full = {} THEN None
      ELSE LET k == CHOOSE k \in full : \A j \in full : k <= j IN
           [node    |-> parses[k].node,
            objects |-> [key   |-> <<grammar.start_symbol, 0>>,
                         index |-> k,
                         kids  |-> parses[k].kids]]

RECURSIVE parse_variants(_, _, _)
parse_variants(grammar, token_variants, v) ==
  IF v > Len(token_variants)
  THEN [result |-> ParseError("no parse"), objects |-> None]
  ELSE LET found == parse_tokens(grammar, token_variants[v]) IN
       IF found # None
       THEN [result  |-> [ok |-> TRUE, message |-> "", value |-> found.node],
             objects |-> found.objects]
       ELSE parse_variants(grammar, token_variants, v + 1)

\* parse_string from line 110 on; token_variants is the value of line 109,
\* _tokenize_input_variants(input_text, grammar).  result is what the call
\* returns or raises, objects tells which ParseNode objects the returned tree
\* is made of.
parse_string(grammar, token_variants) ==
  IF token_variants = <<>>
  THEN [result |-> ParseError("empty input string"), objects |-> None]
  ELSE parse_variants(grammar, token_variants, 1)

\* parse_symbol with its memo table written out.  st holds memo (key to the
\* stored result list and the number of the candidate it was stored for),
\* hits (how often line 124 returned a stored list) and foreign (whether a
\* list stored for another candidate was returned).  memo_alts is the loop of
\* line 132, memo_parts the loop of line 138, memo_nodes the loop of line 140;
\* v is the number of the candidate token sequence the call runs on.
RECURSIVE parse_symbol_memo(_, _, _, _, _, _, _)
RECURSIVE memo_alts(_, _, _, _, _, _, _, _, _, _)
RECURSIVE memo_parts(_, _, _, _, _, _, _, _, _)
RECURSIVE memo_nodes(_, _, _, _, _, _, _, _, _, _)
parse_symbol_memo(grammar, tokens, v, symbol, position, steps_left, st) ==
  IF steps_left <= 0 THEN [results |-> <<>>, st |-> st]
  ELSE LET key == <<symbol, position, steps_left>> IN
       IF key \in DOMAIN st.memo
       THEN [results |-> st.memo[key].results,
             st |-> [st EXCEPT !.hits = @ + 1,
                               !.foreign = @ \/ st.memo[key].candidate # v]]
       ELSE LET out ==
                  IF symbol \in grammar.terminals
                  THEN [results |->
                          IF position < Len(tokens) /\ At(tokens, position) = symbol
                          THEN <<[node |-> ParseNode(symbol, <<>>), pos |-> position + 1]>>
                          ELSE <<>>,
                        st |-> st]
                  ELSE IF symbol \in grammar.nonterminals
                  THEN memo_alts(grammar, tokens, v, symbol, position, steps_left,
                                 ProductionsGet(grammar, symbol), 1, <<>>, st)
                  ELSE [results |-> <<>>, st |-> st]
            IN  [results |-> out.results,
                 st |-> [out.st EXCEPT !.memo =
                           @ @@ (key :> [results |-> out.results, candidate |-> v])]]

memo_alts(grammar, tokens, v, symbol, position, steps_left, alts, a, results, st) ==
  IF a > Len(alts) THEN [results |-> results, st |-> st]
  ELSE IF alts[a] = <<>>
  THEN memo_alts(grammar, tokens, v, symbol, position, steps_left, alts, a + 1,
                 Append(results, [node |-> ParseNode(symbol, <<EpsilonLeaf>>),
                                  pos  |-> position]),
                 st)
  ELSE LET done == memo_parts(grammar, tokens, v, symbol, steps_left, alts[a], 1,
                              <<[node |-> ParseNode(symbol, <<>>), pos |-> position]>>,
                              st)
       IN  memo_alts(grammar, tokens, v, symbol, position, steps_left, alts, a + 1,
                     results \o done.results, done.st)

memo_parts(grammar, tokens, v, symbol, steps_left, rhs, k, current_nodes, st) ==
  IF k > Len(rhs) THEN [results |-> current_nodes, st |-> st]
  ELSE LET next == memo_nodes(grammar, tokens, v, symbol, steps_left, rhs[k],
                              current_nodes, 1, <<>>, st)
       IN  memo_parts(grammar, tokens, v, symbol, steps_left, rhs, k + 1,
                      next.results, next.st)

memo_nodes(grammar, tokens, v, symbol, steps_left, part, current_nodes, c, next_nodes, st) ==
  IF c > Len(current_nodes) THEN [results |-> next_nodes, st |-> st]
  ELSE LET call  == parse_symbol_memo(grammar, tokens, v, part, current_nodes[c].pos,
                                      steps_left - 1, st)
           added == [j \in DOMAIN call.results |->
                       [node |-> ParseNode(symbol,
                                   Append(current_nodes[c].node.children,
                                          call.results[j].node)),
                        pos  |-> call.results[j].pos]]
       IN  memo_nodes(grammar, tokens, v, symbol, steps_left, part, current_nodes,
                      c + 1, next_nodes \o added, call.st)

\* Mutation of memo_for_candidate: the table of the candidate before is kept.
memo_kept(previous) == previous

\* memo = {} at the start of each iteration of the loop over token_variants.
memo_for_candidate(previous) == [key \in {} |-> <<>>]

\* The loop over token_variants from candidate v on, with the memo table
\* written out: for each candidate tried, the list parse_symbol returned at
\* line 150, whether a list stored for another candidate was read, and the
\* number of memo hits.  The loop ends with the first complete parse.
RECURSIVE parse_candidates_memo(_, _, _, _)
parse_candidates_memo(grammar, token_variants, v, previous) ==
  IF v > Len(token_variants) THEN <<>>
  ELSE LET tokens == token_variants[v]
           run == parse_symbol_memo(grammar, tokens, v, grammar.start_symbol, 0,
                                    max_steps(tokens),
                                    [memo    |-> memo_for_candidate(previous),
                                     hits    |-> 0,
                                     foreign |-> FALSE])
       IN  <<[results |-> run.results,
              foreign |-> run.st.foreign,
              hits    |-> run.st.hits]>>
           \o (IF \E k \in DOMAIN run.results : run.results[k].pos = Len(tokens)
               THEN <<>>
               ELSE parse_candidates_memo(grammar, token_variants, v + 1, run.st.memo))

\* Mutation of first_call: the nested call receives the caller's steps_left.
first_call_same_budget(grammar, frame) ==
  LET alts == ProductionsGet(grammar, frame.symbol)
      full == {a \in DOMAIN alts : alts[a] # <<>>}
  IN  IF \/ frame.steps_left <= 0
         \/ frame.symbol \in grammar.terminals
         \/ frame.symbol \notin grammar.nonterminals
         \/ full = {}
      THEN None
      ELSE [symbol    |-> alts[CHOOSE a \in full : \A b \in full : a <= b][1],
            position  |-> frame.position,
            steps_left |-> frame.steps_left]

\* The first nested call a parse_symbol frame makes (line 141 with the first
\* part of the first non-empty right-hand side, at the frame's own position),
\* or None when the frame returns without a nested call.
first_call(grammar, frame) ==
  LET alts == ProductionsGet(grammar, frame.symbol)
      full == {a \in DOMAIN alts : alts[a] # <<>>}
  IN  IF \/ frame.steps_left <= 0
         \/ frame.symbol \in grammar.terminals
         \/ frame.symbol \notin grammar.nonterminals
         \/ full = {}
      THEN None
      ELSE [symbol    |-> alts[CHOOSE a \in full : \A b \in full : a <= b][1],
            position  |-> frame.position,
            steps_left |-> frame.steps_left - 1]

\* The recursion limit of the interpreter that runs parse_symbol
\* (sys.getrecursionlimit() of CPython; the source never changes it).
PyRecursionLimit == 1000

(***************************************************************************)
(* cs_representation.py: format_cs_output                                  *)
(***************************************************************************)
\* The fixed lines of the output.  The header's dash and umlaut, the sign of
\* intersection and the Russian explanations are abbreviated:
\* "Chomsky-Schutzenberger representation", "L = h(R & Dyck_Γ)", "1) K" ..
\* "5) h", "K:", "Γ:", "(for X)", "Dyck_Γ: balanced", "R:", "STEP steps:",
\* "h:", "parse tree:".
HeaderLines ==
  << <<"C","h","o","m","s","k","y","-","S","c","h","u","t","z","e","n","b","e","r","g","e","r"," ","r","e","p","r","e","s","e","n","t","a","t","i","o","n">>,
     <<"L"," ","="," ","h","(","R"," ","&"," ","D","y","c","k","_","Γ",")">>,
     <<>> >>

SECTION(title) == <<"[","S","E","C","T","I","O","N"," ">> \o title \o <<"]">>

StepsLines ==
  << SECTION(<<"S","t","e","p","s">>),
     <<"1",")"," ","K">>,
     <<"2",")"," ","Γ">>,
     <<"3",")"," ","R">>,
     <<"4",")"," ","D","y","c","k","_","Γ">>,
     <<"5",")"," ","h">>,
     <<>> >>

\* ", ".join(items)
CommaJoin(items) == Join(<<","," ">>, items)

\* lines 181-184
KLines(cs_rep) ==
  << SECTION(<<"K">>),
     <<"K",":">>,
     <<"K"," ","="," ","{">> \o CommaJoin(cs_rep.stack_symbols) \o <<"}">>,
     <<>> >>

\* lines 186-190
GammaLines(cs_rep) ==
  << SECTION(<<"Γ">>), <<"Γ",":">> >>
  \o [k \in DOMAIN cs_rep.gamma_pairs |->
        <<"-"," ">> \o cs_rep.gamma_pairs[k][1] \o <<" ",".",".","."," ">> \o cs_rep.gamma_pairs[k][2]
        \o <<" "," "," ","(","f","o","r"," ">> \o cs_rep.gamma_pairs[k][3] \o <<")">>]
  \o << <<>> >>

\* lines 192-194
DyckLines == << SECTION(<<"D","y","c","k","_","Γ">>), <<"D","y","c","k","_","Γ",":"," ","b","a","l","a","n","c","e","d">>, <<>> >>

\* One "expand" line (lines 205-207).
expand_line(lhs, rhs) ==
  LET rhs_str == IF rhs # <<>> THEN Join(<<" ">>, rhs) ELSE EPSILON_DISPLAY
      step    == Join(<<" ">>, <<_close(lhs)>> \o
                                [k \in 1 .. Len(rhs) |-> _open(Reversed(rhs)[k])])
  IN  <<" "," ","-"," ","e","x","p","a","n","d",":"," ">> \o lhs \o <<" ","-",">"," ">> \o rhs_str \o <<" "," "," ","=","=",">"," "," "," ">> \o step

\* The "expand" lines of the left-hand sides from index k of the sorted keys.
RECURSIVE expand_lines(_, _, _)
expand_lines(grammar, keys, k) ==
  IF k > Len(keys) THEN <<>>
  ELSE LET alts == ProductionsGet(grammar, keys[k]) IN
       [a \in DOMAIN alts |-> expand_line(keys[k], alts[a])]
       \o expand_lines(grammar, keys, k + 1)

\* One "match" line (line 209).
match_line(t) == <<" "," ","-"," ","m","a","t","c","h"," ",":"," ">> \o t \o <<" "," "," ","=","=",">"," "," "," ">> \o _close(t)

\* lines 196-210
RLines(grammar, cs_rep) ==
  << SECTION(<<"R">>),
     <<"R",":">>,
     <<"S","T","E","P"," ","="," ">> \o cs_rep.step_regex,
     <<"R"," ","="," ">> \o cs_rep.r_regex,
     <<>>,
     <<"S","T","E","P"," ","s","t","e","p","s",":">> >>
  \o expand_lines(grammar, Sorted(grammar.nonterminals), 1)
  \o [k \in 1 .. Cardinality(grammar.terminals) |->
        match_line(Sorted(grammar.terminals)[k])]
  \o << <<>> >>

\* lines 212-215
HLines(cs_rep) ==
  << SECTION(<<"h">>), <<"h",":">> >>
  \o [k \in 1 .. Cardinality(DOMAIN cs_rep.homomorphism) |->
        LET symbol == Sorted(DOMAIN cs_rep.homomorphism)[k] IN
        <<" "," ">> \o symbol \o <<" ","-",">"," ">> \o cs_rep.homomorphism[symbol]]

\* lines 217-221; parse_tree_text None and "" are both <<>>.
ParseTreeLines(parse_tree_text) ==
  IF parse_tree_text # <<>>
  THEN << <<>>, SECTION(<<"P","a","r","s","e"," ","T","r","e","e">>), <<"p","a","r","s","e"," ","t","r","e","e",":">>, parse_tree_text >>
  ELSE <<>>

\* Mutation of format_cs_output: [SECTION h] comes before [SECTION R].
format_cs_output_h_first(grammar, cs_rep, parse_tree_text) ==
  Join(<<"\n">>,
       HeaderLines \o StepsLines \o KLines(cs_rep) \o GammaLines(cs_rep)
       \o DyckLines \o HLines(cs_rep) \o << <<>> >> \o RLines(grammar, cs_rep)
       \o ParseTreeLines(parse_tree_text))

format_cs_output(grammar, cs_rep, parse_tree_text) ==
  Join(<<"\n">>,
       HeaderLines \o StepsLines \o KLines(cs_rep) \o GammaLines(cs_rep)
       \o DyckLines \o RLines(grammar, cs_rep) \o HLines(cs_rep)
       \o ParseTreeLines(parse_tree_text))


(***************************************************************************)
(* Inputs of the model.                                                    *)
(***************************************************************************)
MaxRhsLen == 4
MaxInputLen == 6
MaxTokens == 50
MaxNest == 3
MaxLines == 3

Strings(chars, n) == UNION {[1 .. k -> chars] : k \in 0 .. n}

Text_AnBn      == <<"S"," ","-",">"," ","a"," ","S"," ","b"," ","|"," ","ε">>
Text_Multi     == <<"S"," ","-",">"," ","A"," ","B"," ","|"," ","b","\n",
                    "A"," ","-",">"," ","a"," ","A"," ","|"," ","a","\n",
                    "B"," ","-",">"," ","b"," ","B"," ","|"," ","b">>
Text_AorB      == <<"S"," ","-",">"," ","a"," ","|"," ","b">>
Text_BBlock    == <<"S"," ","-",">"," ","a"," ","S"," ","B"," ","b"," ","|"," ","a","a","\n",
                    "B"," ","-",">"," ","b","b">>
Text_LeftRec   == <<"S"," ","-",">"," ","S"," ","a"," ","|"," ","a">>
Text_RightRec  == <<"S"," ","-",">"," ","a"," ","S"," ","|"," ","a">>
Text_Bottom    == <<"S"," ","-",">"," ","⊥">>
Text_BottomNt  == <<"⊥"," ","-",">"," ","a"," ","⊥"," ","|"," ","ε">>
Text_BottomMix == <<"S"," ","-",">"," ","\"","⊥","a","\""," ","⊥"," ","|"," ",
                    "<","⊥"," ","b",">">>
Text_Order     == <<"S"," ","-",">"," ","a","\n","A"," ","-",">"," ","b","\n",
                    "S"," ","-",">"," ","c">>
Text_AB        == <<"S"," ","-",">"," ","a"," ","b">>
Text_Blank     == <<" "," "," ">>
Text_OpenQuote == <<"S"," ","-",">"," ","\"","a","b","c">>
Text_NoArrow   == <<"S"," ","a"," ","S"," ","b">>
Text_NoLhs     == <<" ","-",">"," ","a">>
Text_NoRule    == <<"|"," ","a">>
Text_Expr      == <<"<","E","x","p","r",">"," ","-",">"," ","<","E","x","p","r",">"," ",
                    "+"," ","T"," ","|"," ","T","\n",
                    "T"," ","-",">"," ","0"," ","|"," ","1"," ","|"," ",
                    "("," ","<","E","x","p","r",">"," ",")">>
\* S -> A A a / A -> ε
Text_EpsTwice  == <<"S"," ","-",">"," ","A"," ","A"," ","a","\n",
                    "A"," ","-",">"," ","ε">>
\* S -> A | a / A -> a
Text_Ambiguous == <<"S"," ","-",">"," ","A"," ","|"," ","a","\n",
                    "A"," ","-",">"," ","a">>
Text_TwoEps    == <<"S"," ","-",">"," ","A"," ","A","\n",
                    "A"," ","-",">"," ","ε"," ","|"," ","a">>

\* S ->"\\"" followed by a line without arrow; S -> a, blank, S -> "abc
Text_EscQuote  == <<"S"," ","-",">","\"","\\","\\","\"","\"","\n","x">>
Text_QuoteL3   == <<"S"," ","-",">"," ","a","\n"," ","\n",
                    "S"," ","-",">"," ","\"","a","b","c","\n","x">>

Text_Eps3      == <<"S"," ","-",">"," ","a"," ","|"," ","e","p","s","i","l","o","n",
                    " ","|"," ","\"","\"">>
Text_EpsInside == <<"S"," ","-",">"," ","e","p","s","i","l","o","n"," ","|",
                    " ","a"," ","\"","\""," ","S">>

\* Nonterminals A and AB, one a prefix of the other; terminals a, ab and b.
Text_Prefix    == <<"S"," ","-",">"," ","A","B"," ","A"," ","|"," ","\"","a","b","\"","\n",
                    "A"," ","-",">"," ","a","\n",
                    "A","B"," ","-",">"," ","b">>

FixedTexts ==
  {Text_Prefix, Text_Eps3, Text_EpsInside, Text_AnBn, Text_Multi, Text_AorB, Text_BBlock, Text_LeftRec, Text_RightRec,
   Text_Bottom, Text_BottomNt, Text_BottomMix, Text_Order, Text_AB, Text_Blank,
   Text_OpenQuote, Text_NoArrow, Text_NoLhs, Text_NoRule, Text_Expr, Text_TwoEps,
   Text_EscQuote, Text_QuoteL3}

\* One rule line "S ->" followed by any right-hand side text over RhsChars.
RulePrefix == <<"S"," ","-",">">>
RhsChars == {"a", "S", "\"", "\\", "|", " ", "ε"}
RuleTexts == {RulePrefix \o rhs : rhs \in Strings(RhsChars, MaxRhsLen)}

\* Texts of at most MaxLines lines, each line one of: a rule, a rule with the
\* arrow "→" and two alternatives, two continuation lines, a line that is
\* neither, a blank line, a rule without left-hand side.
LineKinds ==
  { <<"S"," ","-",">"," ","a">>,
    <<"A"," ","→"," ","b"," ","|"," ","S">>,
    <<"|"," ","c">>,
    <<" ","|","d","|","ε">>,
    <<"x"," ","y">>,
    <<" "," ">>,
    <<" ","-",">"," ","a">> }
LineTexts == {Join(<<"\n">>, ls) : ls \in Strings(LineKinds, MaxLines)}

\* Right-hand sides made of one identifier run: S -> IntValue, S -> IntInt,
\* S -> IntS and S -> xInt followed by the rule Int -> a, and S -> aSb.
IdentTexts ==
  { RulePrefix \o <<" ">> \o run \o <<"\n","I","n","t"," ","-",">"," ","a">> :
      run \in {<<"I","n","t","V","a","l","u","e">>, <<"I","n","t","I","n","t">>,
               <<"I","n","t","S">>, <<"x","I","n","t">>} }
  \cup {RulePrefix \o <<" ","a","S","b">>}

\* Texts of one to MaxLines lines, each line one of: S -> a, A -> "a|b",
\* | "c|d" | e, B -> "x->y", and x y (no arrow).
BarTexts ==
  { Join(<<"\n">>, ls) :
      ls \in Strings({ <<"S"," ","-",">"," ","a">>,
                       <<"A"," ","-",">"," ","\"","a","|","b","\"">>,
                       <<"|"," ","\"","c","|","d","\""," ","|"," ","e">>,
                       <<"B"," ","-",">"," ","\"","x","-",">","y","\"">>,
                       <<"x"," ","y">> }, MaxLines) \ {<<>>} }

\* The rules S -> AB A, A -> a and AB -> b in every order.
OrderTexts ==
  { Join(<<"\n">>, ls) :
      ls \in IterationOrders({ <<"S"," ","-",">"," ","A","B"," ","A">>,
                               <<"A"," ","-",">"," ","a">>,
                               <<"A","B"," ","-",">"," ","b">> }) }

GrammarTexts ==
  FixedTexts \cup RuleTexts \cup LineTexts \cup IdentTexts \cup BarTexts \cup OrderTexts

\* Grammar values built with the constructor, not by parse_grammar.
DirectProductions ==
  { <<>>,
    <<[lhs |-> <<"S">>, alts |-> <<>>]>>,
    <<[lhs |-> <<"S">>, alts |-> << << <<"a">> >> >>]>>,
    <<[lhs |-> <<"A">>, alts |-> << << <<"a">>, <<"A">> >>, <<>> >>]>> }
DirectStarts == {<<"S">>, <<"A">>}

ParseTexts ==
  {Text_AnBn, Text_AorB, Text_BBlock, Text_LeftRec, Text_AB, Text_TwoEps, Text_Prefix,
   Text_EpsTwice, Text_Ambiguous}
InputChars == {"a", "b", " "}
\* " ".join(["a"] * n + ["b"] * n)
RECURSIVE Repeat(_, _)
Repeat(item, n) == IF n <= 0 THEN <<>> ELSE <<item>> \o Repeat(item, n - 1)

SpacedAnBn(n) == Join(<<" ">>, Repeat(<<"a">>, n) \o Repeat(<<"b">>, n))

\* All short texts over InputChars, a^n b^n with spaces, and a<TAB>b.
InputTexts ==
  Strings(InputChars, MaxInputLen) \cup {SpacedAnBn(n) : n \in 1 .. MaxNest}
    \cup {<<"a", "\t", "b">>}

FormatTexts == FixedTexts \cup LineTexts

\* parse_tree_text of format_cs_output: None or "" (both <<>>), a blank, the
\* text of a tree.
ParseTreeTexts == {<<>>, <<" ">>, <<"S","\n"," "," ","a">>}

\* Texts segmented against the terminals of a grammar: all short ones and
\* runs of a, which have many segmentations into a and aa.
MaxSegLen == 5
MaxRun == 13
SegmentGrammars == {Text_BBlock, Text_Prefix, Text_AorB}
SegmentTexts ==
  (Strings({"a", "b"}, MaxSegLen) \ {<<>>}) \cup {Repeat("a", n) : n \in 1 .. MaxRun}

CallTexts == {Text_LeftRec, Text_RightRec, Text_AnBn}
TokenChars == {"a", "b"}

(***************************************************************************)
(* The program as a state machine: a client calls the entry points.        *)
(***************************************************************************)
VARIABLES
  pc,          \* "idle", "grammar", "cs", "tree", "parse_symbol", "returned", "RecursionError"
  origin,      \* who built the Grammar: "none", "parse_grammar", "Grammar"
  text,        \* the argument of parse_grammar
  grammar,     \* what parse_grammar returned (Ok(Grammar)) or raised (GrammarError)
  cs_rep,      \* what build_cs_representation returned
  input_text,  \* the argument of parse_string
  tree,        \* what parse_string returned (a ParseNode) or raised (ParseError)
  tokens,      \* the token sequence parse_symbol runs on
  frame,       \* the innermost active parse_symbol call
  depth,       \* the number of active parse_symbol calls
  parse_tree_text,  \* the third argument of format_cs_output
  output,      \* what format_cs_output returned
  objects,     \* the ParseNode objects the returned tree is made of
  variants     \* what _segment_text_with_terminals returned

vars == <<pc, origin, text, grammar, cs_rep, input_text, tree, tokens, frame, depth,
          parse_tree_text, output, objects, variants>>

NoGrammar == [ok |-> FALSE, message |-> "none", line_no |-> NoLine, value |-> <<>>]
NoCS == [stack_symbols |-> <<>>, gamma_pairs |-> <<>>, r_regex |-> <<>>,
         step_regex |-> <<>>, homomorphism |-> <<>>]
NoTree == [ok |-> FALSE, message |-> "none", value |-> <<>>]
NoFrame == [symbol |-> <<>>, position |-> 0, steps_left |-> 0]

Init ==
  /\ pc = "idle"
  /\ origin = "none"
  /\ text = <<>>
  /\ grammar = NoGrammar
  /\ cs_rep = NoCS
  /\ input_text = <<>>
  /\ tree = NoTree
  /\ tokens = <<>>
  /\ frame = NoFrame
  /\ depth = 0
  /\ parse_tree_text = <<>>
  /\ objects = None
  /\ variants = <<>>
  /\ output = <<>>

\* parse_grammar(t)
CallParseGrammar(t) ==
  /\ pc = "idle"
  /\ pc' = "grammar"
  /\ origin' = "parse_grammar"
  /\ text' = t
  /\ grammar' \in parse_grammar(t)
  /\ UNCHANGED <<variants, objects, parse_tree_text, output, cs_rep, input_text, tree, tokens, frame, depth>>

\* Grammar(productions, start_symbol)
CallGrammar(productions, start_symbol) ==
  /\ pc = "idle"
  /\ pc' = "grammar"
  /\ origin' = "Grammar"
  /\ grammar' = Ok(Grammar(productions, start_symbol))
  /\ UNCHANGED <<variants, objects, parse_tree_text, output, text, cs_rep, input_text, tree, tokens, frame, depth>>

\* build_cs_representation(grammar)
CallBuildCS ==
  /\ pc = "grammar"
  /\ grammar.ok
  /\ pc' = "cs"
  /\ cs_rep' = build_cs_representation(grammar.value)
  /\ UNCHANGED <<variants, objects, parse_tree_text, output, origin, text, grammar, input_text, tree, tokens, frame, depth>>

\* parse_string(grammar, inp)
CallParseString(inp) ==
  /\ pc = "grammar"
  /\ grammar.ok
  /\ pc' = "tree"
  /\ input_text' = inp
  /\ \E token_variants \in
          {_tokenize_input_variants(inp, terminals) :
             terminals \in IterationOrders(grammar.value.terminals)} :
       LET returned == parse_string(grammar.value, token_variants)
       IN  tree' = returned.result /\ objects' = returned.objects
  /\ UNCHANGED <<variants, parse_tree_text, output, origin, text, grammar, cs_rep, tokens, frame, depth>>

\* parse_string reaches line 150 for its first candidate, the n tokens of the
\* space-separated input "tok tok ... tok":
\* parse_symbol(grammar.start_symbol, 0, max_steps) is called.
EnterParseSymbol(n, tok) ==
  /\ pc = "grammar"
  /\ grammar.ok
  /\ pc' = "parse_symbol"
  /\ tokens' = [k \in 1 .. n |-> <<tok>>]
  /\ frame' = [symbol |-> grammar.value.start_symbol, position |-> 0,
               steps_left |-> max_steps(tokens')]
  /\ depth' = 1
  /\ UNCHANGED <<variants, objects, parse_tree_text, output, origin, text, grammar, cs_rep, input_text, tree>>

\* The innermost call makes its first nested call; parse_string's own frame
\* counts towards the interpreter's limit.
NestedCall ==
  /\ pc = "parse_symbol"
  /\ first_call(grammar.value, frame) # None
  /\ depth + 2 <= PyRecursionLimit
  /\ frame' = first_call(grammar.value, frame)
  /\ depth' = depth + 1
  /\ UNCHANGED <<variants, objects, parse_tree_text, output, pc, origin, text, grammar, cs_rep, input_text, tree, tokens>>

\* The nested call would exceed the limit: the interpreter raises
\* RecursionError, which parse_string does not catch.
RecursionOverflow ==
  /\ pc = "parse_symbol"
  /\ first_call(grammar.value, frame) # None
  /\ depth + 2 > PyRecursionLimit
  /\ pc' = "RecursionError"
  /\ UNCHANGED <<variants, objects, parse_tree_text, output, origin, text, grammar, cs_rep, input_text, tree, tokens, frame, depth>>

\* The innermost call returns without a nested call: the chain of first
\* calls ends and the recursion unwinds.
FirstReturn ==
  /\ pc = "parse_symbol"
  /\ first_call(grammar.value, frame) = None
  /\ pc' = "returned"
  /\ UNCHANGED <<variants, objects, parse_tree_text, output, origin, text, grammar, cs_rep, input_text, tree, tokens, frame, depth>>

\* format_cs_output(grammar, cs_rep, parse_tree_text)
CallFormatCS(tree_text) ==
  /\ pc = "cs"
  /\ pc' = "formatted"
  /\ parse_tree_text' = tree_text
  /\ output' = format_cs_output(grammar.value, cs_rep, tree_text)
  /\ UNCHANGED <<variants, objects, origin, text, grammar, cs_rep, input_text, tree, tokens, frame, depth>>

\* _segment_text_with_terminals(compact, terminals) as line 84 or 90 of
\* _tokenize_input_variants calls it, terminals being set(grammar.terminals).
CallSegmentText(compact) ==
  /\ pc = "grammar"
  /\ grammar.ok
  /\ pc' = "segmented"
  /\ input_text' = compact
  /\ \E terminals \in IterationOrders(grammar.value.terminals) :
       variants' = _segment_text_with_terminals(compact, terminals,
                                                max_variants_default)
  /\ UNCHANGED <<objects, parse_tree_text, output, origin, text, grammar, cs_rep, tree, tokens, frame, depth>>

\* Grammar text to CS representation.
Next ==
  \/ \E t \in GrammarTexts : CallParseGrammar(t)
  \/ \E p \in DirectProductions, st \in DirectStarts : CallGrammar(p, st)
  \/ CallBuildCS

Spec == Init /\ [][Next]_vars

\* Grammar text to the formatted output.
NextFormat ==
  \/ \E t \in FormatTexts : CallParseGrammar(t)
  \/ \E p \in DirectProductions, st \in DirectStarts : CallGrammar(p, st)
  \/ CallBuildCS
  \/ \E tree_text \in ParseTreeTexts : CallFormatCS(tree_text)

SpecFormat == Init /\ [][NextFormat]_vars

\* Grammar text and input string to parse tree.
NextParse ==
  \/ \E t \in ParseTexts : CallParseGrammar(t)
  \/ \E inp \in InputTexts : CallParseString(inp)

SpecParse == Init /\ [][NextParse]_vars

\* Grammar text and compact input to its terminal segmentations.
NextSegment ==
  \/ \E t \in SegmentGrammars : CallParseGrammar(t)
  \/ \E compact \in SegmentTexts : CallSegmentText(compact)

SpecSegment == Init /\ [][NextSegment]_vars

\* The nesting of parse_symbol calls.
NextCalls ==
  \/ \E t \in CallTexts : CallParseGrammar(t)
  \/ \E n \in 1 .. MaxTokens, tok \in TokenChars : EnterParseSymbol(n, tok)
  \/ NestedCall
  \/ RecursionOverflow
  \/ FirstReturn

SpecCalls == Init /\ [][NextCalls]_vars

(***************************************************************************)
(* Properties.                                                             *)
(***************************************************************************)
BuiltByParseGrammar == origin = "parse_grammar" /\ grammar.ok

\* Every symbol on a right-hand side of the grammar.
RhsSymbols(g) ==
  UNION { UNION {Range(g.productions[p].alts[a]) : a \in DOMAIN g.productions[p].alts}
          : p \in DOMAIN g.productions }

\* The number of production alternatives of the grammar.
RECURSIVE NumAlternatives(_)
NumAlternatives(productions) ==
  IF productions = <<>> THEN 0
  ELSE Len(Head(productions).alts) + NumAlternatives(Tail(productions))

Str_aabb   == <<"a","a","b","b">>
Str_aaabbb == <<"a","a","a","b","b","b">>

\* C1: for every grammar the homomorphism of build_cs_representation maps,
\* for every terminal t (the character "⊥" included), "]"+t to t and "["+t to
\* "ε", and both brackets of every nonterminal and of the bottom marker to "ε".
C1_HomomorphismTerminalLaw ==
  pc = "cs" =>
    LET g == grammar.value
        h == cs_rep.homomorphism
    IN  /\ \A t \in g.terminals :
             /\ _close(t) \in DOMAIN h /\ h[_close(t)] = t
             /\ _open(t) \in DOMAIN h /\ h[_open(t)] = EPSILON_DISPLAY
        /\ \A nt \in g.nonterminals \cup {BOTTOM_MARKER} :
             /\ _open(nt) \in DOMAIN h /\ h[_open(nt)] = EPSILON_DISPLAY
             /\ _close(nt) \in DOMAIN h /\ h[_close(nt)] = EPSILON_DISPLAY

\* C2 as stated: for the grammar S -> a S B b | aa / B -> bb, parse_string
\* on the input "aabb" returns a ParseNode.
C2_AabbParses ==
  (pc = "tree" /\ text = Text_BBlock /\ input_text = Str_aabb) => tree.ok

C2_Tree_aaabbb ==
  ParseNode(<<"S">>,
    << ParseNode(<<"a">>, <<>>),
       ParseNode(<<"S">>, << ParseNode(<<"a","a">>, <<>>) >>),
       ParseNode(<<"B">>, << ParseNode(<<"b","b">>, <<>>) >>),
       ParseNode(<<"b">>, <<>>) >>)

\* C2 amended: for the grammar S -> a S B b | aa / B -> bb, parse_string
\* raises ParseError on "aabb" (no token variant of it derives from S) and
\* succeeds on "aaabbb" (no spaces) through the segmentation a aa bb b, which
\* is neither the longest-first segmentation nor the character split.
C2_SegmentationSearch ==
  (pc = "tree" /\ text = Text_BBlock) =>
    /\ input_text = Str_aabb => (~tree.ok /\ tree.message = "no parse")
    /\ input_text = Str_aaabbb => (tree.ok /\ tree.value = C2_Tree_aaabbb)

C2_Witness ==
  pc = "tree" /\ text = Text_BBlock /\ input_text = Str_aaabbb /\ tree.ok

\* C3: for every Grammar built by parse_grammar, terminals and nonterminals
\* are disjoint, every symbol of a right-hand side is in exactly one of the
\* two sets, and nonterminals is the key set of the production mapping.
C3_Partition ==
  (pc = "grammar" /\ BuiltByParseGrammar) =>
    LET g == grammar.value IN
    /\ g.terminals \cap g.nonterminals = {}
    /\ \A sym \in RhsSymbols(g) : (sym \in g.terminals) # (sym \in g.nonterminals)
    /\ g.nonterminals = {g.productions[p].lhs : p \in DOMAIN g.productions}

C3_Witness ==
  /\ pc = "grammar" /\ BuiltByParseGrammar
  /\ RhsSymbols(grammar.value) \cap grammar.value.nonterminals # {}
  /\ RhsSymbols(grammar.value) \cap grammar.value.terminals # {}

IsBracket(token) == token # <<>> /\ token[1] \in {"[", "]"}

\* C4: for all Grammars (one with no productions included), every bracket
\* token of step_regex and of the envelope r_regex is a key of the
\* homomorphism, and so are open(s) and close(s) for every s of K.
C4_HomomorphismTotal ==
  pc = "cs" =>
    LET g == grammar.value
        h == cs_rep.homomorphism
        steps == step_parts(g)
    IN  /\ \A k \in DOMAIN steps : \A j \in DOMAIN steps[k] :
             steps[k][j] \in DOMAIN h
        /\ \A j \in DOMAIN r_parts(g) :
             IsBracket(r_parts(g)[j]) => r_parts(g)[j] \in DOMAIN h
        /\ \A k \in DOMAIN cs_rep.stack_symbols :
             /\ _open(cs_rep.stack_symbols[k]) \in DOMAIN h
             /\ _close(cs_rep.stack_symbols[k]) \in DOMAIN h

\* The productions A -> X1..Xk in the order of the production mapping.
RECURSIVE C5_Rules(_)
C5_Rules(productions) ==
  IF productions = <<>> THEN <<>>
  ELSE [a \in DOMAIN Head(productions).alts |->
          [lhs |-> Head(productions).lhs, rhs |-> Head(productions).alts[a]]]
       \o C5_Rules(Tail(productions))

\* " [Xk ... [X1"
RECURSIVE C5_Pushes(_, _)
C5_Pushes(rhs, k) ==
  IF k = 0 THEN <<>> ELSE <<" ", "[">> \o rhs[k] \o C5_Pushes(rhs, k - 1)

RECURSIVE C5_Bars(_)
C5_Bars(alts) ==
  IF Len(alts) = 1 THEN alts[1]
  ELSE alts[1] \o <<" ", "|", " ">> \o C5_Bars(Tail(alts))

C5_Expected(g) ==
  LET rules == C5_Rules(g.productions)
      ts    == Sorted(g.terminals)
      alts  == [i \in 1 .. Len(rules) |->
                  <<"(", "]">> \o rules[i].lhs
                  \o C5_Pushes(rules[i].rhs, Len(rules[i].rhs)) \o <<")">>]
               \o [i \in 1 .. Len(ts) |-> <<"(", "]">> \o ts[i] \o <<")">>]
  IN  IF alts = <<>> THEN <<"ε">> ELSE C5_Bars(alts)

\* C5: step_regex is the " | "-joined list of parenthesised alternatives:
\* first "]A [Xk ... [X1" per production A -> X1..Xk in the order of the
\* production mapping (just "]A" when k = 0), then "]t" per terminal t in
\* sorted order; it is "ε" only when there is no production and no terminal.
C5_StepRegex ==
  pc = "cs" =>
    /\ cs_rep.step_regex = C5_Expected(grammar.value)
    /\ cs_rep.step_regex = <<"ε">> =>
         /\ NumAlternatives(grammar.value.productions) = 0
         /\ grammar.value.terminals = {}

C5_Witness ==
  /\ pc = "cs" /\ text = Text_AnBn /\ BuiltByParseGrammar
  /\ cs_rep.step_regex =
       <<"(","]","S"," ","[","b"," ","[","S"," ","[","a",")"," ","|"," ",
         "(","]","S",")"," ","|"," ","(","]","a",")"," ","|"," ","(","]","b",")">>

\* The group of a stack symbol: nonterminals, then terminals, then the
\* bottom marker when it is no grammar symbol.
C6_Group(g, sym) ==
  IF sym \in g.nonterminals THEN 1 ELSE IF sym \in g.terminals THEN 2 ELSE 3

C7_PairPerAlternative ==
  (pc = "cs" /\ BuiltByParseGrammar /\ text = Text_AorB) =>
    /\ Len(cs_rep.gamma_pairs) = NumAlternatives(grammar.value.productions)
    /\ Len(cs_rep.gamma_pairs) = 2
    /\ \E k \in DOMAIN cs_rep.gamma_pairs :
         StartsWith(cs_rep.gamma_pairs[k][1], <<"[", "S">>, 0)

\* C8: with the left-recursive grammar S -> S a | a and a token sequence of
\* bounded length, the recursion of parse_symbol never ends in a
\* recursion-overflow fault (parse_string ends with a tree or a ParseError).
C8_NoRecursionOverflow ==
  text = Text_LeftRec => pc # "RecursionError"

\* The right-hand side text of a one-line text that starts with "S ->".
C9_Rhs == Slice(text, Len(RulePrefix), Len(text))

\* C9: a rule line whose right-hand side is empty (nothing but blanks after
\* the arrow) is rejected with a GrammarError carrying that line's number.
C9_EmptyRhsRejected ==
  ( /\ pc = "grammar" /\ origin = "parse_grammar"
    /\ text \in RuleTexts
    /\ Strip(C9_Rhs) = <<>> )
  => (~grammar.ok /\ grammar.line_no = 1)

\* The content of a quoted literal: characters other than the quote, where a
\* backslash before a quote or a backslash starts an escape.
RECURSIVE C10_IsContent(_)
C10_IsContent(body) ==
  IF body = <<>> THEN TRUE
  ELSE IF Head(body) = "\\"
  THEN IF Len(body) >= 2 /\ body[2] \in {"\"", "\\"}
       THEN C10_IsContent(SubSeq(body, 3, Len(body)))
       ELSE Len(body) >= 2 /\ C10_IsContent(Tail(body))
  ELSE Head(body) # "\"" /\ C10_IsContent(Tail(body))

\* The content with \" replaced by " and \\ replaced by \.
RECURSIVE C10_Unescaped(_)
C10_Unescaped(body) ==
  IF body = <<>> THEN <<>>
  ELSE IF Head(body) = "\\" /\ Len(body) >= 2 /\ body[2] \in {"\"", "\\"}
  THEN <<body[2]>> \o C10_Unescaped(SubSeq(body, 3, Len(body)))
  ELSE <<Head(body)>> \o C10_Unescaped(Tail(body))

\* C10: a right-hand side that is one non-empty double-quoted literal without
\* arrow and "|" (and not the name of a nonterminal) yields exactly one
\* terminal, the literal's content with \" replaced by " and \\ by \,
\* wherever the escapes occur in it, also directly before the closing quote.
C10_QuotedLiteral ==
  LET rhs     == Strip(C9_Rhs)
      content == Slice(rhs, 1, Len(rhs) - 1)
      literal == C10_Unescaped(content)
  IN  ( /\ pc = "grammar" /\ origin = "parse_grammar"
        /\ text \in RuleTexts
        /\ Len(rhs) >= 3
        /\ Head(rhs) = "\"" /\ rhs[Len(rhs)] = "\""
        /\ C10_IsContent(content)
        /\ ~Contains(rhs, <<"|">>)
        /\ literal # <<"S">> )
      => /\ grammar.ok
         /\ grammar.value.productions = <<[lhs |-> <<"S">>, alts |-> << <<literal>> >>]>>
         /\ grammar.value.terminals = {literal}

\* The tree S[a, S[a, ... S[ε] ..., b], b] with n nested nodes S[a, S, b].
RECURSIVE C11_Nested(_)
C11_Nested(n) ==
  IF n = 0 THEN ParseNode(<<"S">>, <<EpsilonLeaf>>)
  ELSE ParseNode(<<"S">>, <<ParseNode(<<"a">>, <<>>), C11_Nested(n - 1),
                           ParseNode(<<"b">>, <<>>)>>)

\* C11: for the grammar S -> a S b | ε and every n >= 1, parse_string on the
\* space-separated input a^n b^n returns the tree with root S, n nested nodes
\* S[a, S, b] and an innermost S whose only child is the epsilon marker.
C11_NestedTree ==
  \A n \in 1 .. MaxNest :
    (pc = "tree" /\ text = Text_AnBn /\ input_text = SpacedAnBn(n)) =>
      (tree.ok /\ tree.value = C11_Nested(n))

C11_Witness ==
  /\ pc = "tree" /\ text = Text_AnBn /\ input_text = SpacedAnBn(MaxNest)
  /\ tree.ok
  /\ tree.value.children[2].children[2].symbol = <<"S">>

\* C12: parse_string ends with ParseError whenever no candidate token
\* sequence has a derivation of the start symbol; here the tokens are not
\* terminals of the grammar, so no candidate has one, and the call must not
\* end with any other exception.
C12_ParseErrorWhenNoDerivation ==
  (\E k \in DOMAIN tokens : tokens[k] \notin grammar.value.terminals) =>
    pc # "RecursionError"

\* A double quote opened in rhs is not closed: inside quotes a backslash
\* escapes a following quote or backslash.
RECURSIVE C13_OpenAtEnd(_, _, _)
C13_OpenAtEnd(rhs, i, open) ==
  IF i >= Len(rhs) THEN open
  ELSE IF open /\ At(rhs, i) = "\\" /\ i + 1 < Len(rhs)
               /\ At(rhs, i + 1) \in {"\"", "\\"}
  THEN C13_OpenAtEnd(rhs, i + 2, open)
  ELSE IF At(rhs, i) = "\"" THEN C13_OpenAtEnd(rhs, i + 1, ~open)
  ELSE C13_OpenAtEnd(rhs, i + 1, open)

\* The right-hand side text of a line: what follows the arrow of a rule line
\* or the "|" of a continuation line.
LineHasRhs(line) ==
  \/ \E k \in DOMAIN ARROW_SYMBOLS : Contains(line, ARROW_SYMBOLS[k])
  \/ StartsWith(line, <<"|">>, 0)

LineRhs(line) ==
  IF \E k \in DOMAIN ARROW_SYMBOLS : Contains(line, ARROW_SYMBOLS[k])
  THEN split_rule_arrow(line, 0).value[2]
  ELSE Slice(line, 1, Len(line))

\* No line before line k is malformed: the text of the lines before k is
\* blank or a grammar.
C13_PrefixFine(lines, k) ==
  LET prefix == Join(<<"\n">>, SubSeq(lines, 1, k - 1))
  IN  Strip(prefix) = <<>> \/ \A g \in parse_grammar(prefix) : g.ok

C13_Lines ==
  LET lines == SplitLines(text) IN
  {k \in DOMAIN lines :
     /\ LineHasRhs(Strip(lines[k]))
     /\ C13_OpenAtEnd(LineRhs(Strip(lines[k])), 0, FALSE)
     /\ C13_PrefixFine(lines, k)}

\* C13: when the right-hand side on line k of the text has an unterminated
\* double quote and no earlier line is malformed, parse_grammar raises a
\* GrammarError whose line number is k.
C13_UnterminatedQuoteLine ==
  (pc = "grammar" /\ origin = "parse_grammar") =>
    \A k \in C13_Lines : ~grammar.ok /\ grammar.line_no = k

C14_IsRule(line) == \E k \in DOMAIN ARROW_SYMBOLS : Contains(line, ARROW_SYMBOLS[k])

C14_IsCont(line) == ~C14_IsRule(line) /\ StartsWith(line, <<"|">>, 0)

C14_Lhs(line) == normalize_nonterminal(Strip(split_rule_arrow(line, 0).value[1]))

\* The left-hand side of the most recent rule line at or before line k.
RECURSIVE C14_Owner(_, _)
C14_Owner(lines, k) ==
  IF k = 0 THEN None
  ELSE IF C14_IsRule(Strip(lines[k])) THEN C14_Lhs(Strip(lines[k]))
  ELSE C14_Owner(lines, k - 1)

\* The lines that are errors of classification, with the error's message.
C14_Error(lines, k) ==
  LET line == Strip(lines[k]) IN
  IF line = <<>> THEN None
  ELSE IF C14_IsRule(line)
  THEN (IF C14_Lhs(line) = <<>> THEN <<"e","m","p","t","y"," ","l","h","s">> ELSE None)
  ELSE IF C14_IsCont(line)
  THEN (IF C14_Owner(lines, k - 1) = None THEN <<"n","o"," ","r","u","l","e">> ELSE None)
  ELSE <<"n","o"," ","a","r","r","o","w">>

C14_Message(kind) ==
  IF kind = <<"e","m","p","t","y"," ","l","h","s">> THEN "empty lhs"
  ELSE IF kind = <<"n","o"," ","r","u","l","e">> THEN "continuation without rule"
  ELSE "missing arrow"

\* The lines whose right-hand side the first pass rejects for its quotes.
C14_QuoteError(lines, k) ==
  LET line == Strip(lines[k]) IN
  /\ line # <<>>
  /\ C14_Error(lines, k) = None
  /\ ~split_alternatives(LineRhs(line), k).ok

\* The alternatives of lhs: those of its rule lines and of the continuation
\* lines that follow them, in text order.
C14_Alternatives(lines, lhs, nonterminals) ==
  Concat([k \in DOMAIN lines |->
    LET line == Strip(lines[k]) IN
    IF line # <<>> /\ C14_Owner(lines, k) = lhs
    THEN LET alts == split_alternatives(LineRhs(line), k).value IN
         [a \in DOMAIN alts |->
            IF alts[a] \in EPSILON_SYMBOLS \/ alts[a] = <<>> THEN <<>>
            ELSE tokenize_rhs(alts[a], k, nonterminals).value]
    ELSE <<>>])

\* C14: parse_grammar classifies the non-blank lines in text order.  The first
\* line that is a rule without left-hand side, a continuation without a rule
\* before it, or neither a rule nor a continuation is a GrammarError with that
\* line's number (unless an earlier line's quotes are rejected); blank text is
\* a GrammarError without line number; and in a Grammar the alternatives of
\* each left-hand side are those of its rule lines and of the continuation
\* lines after them, in text order.
C14_LineClassification ==
  (pc = "grammar" /\ origin = "parse_grammar") =>
    LET lines  == SplitLines(text)
        bad    == {k \in DOMAIN lines : C14_Error(lines, k) # None}
        quote  == {k \in DOMAIN lines : C14_QuoteError(lines, k)}
        isFirst(k) == \A j \in bad \cup quote : k <= j
    IN  /\ Strip(text) = <<>> =>
              (~grammar.ok /\ grammar.line_no = NoLine
                 /\ grammar.message = "empty input")
        /\ \A k \in bad : isFirst(k) =>
              /\ ~grammar.ok
              /\ grammar.line_no = k
              /\ grammar.message = C14_Message(C14_Error(lines, k))
        /\ grammar.ok =>
              /\ bad = {}
              /\ \A p \in DOMAIN grammar.value.productions :
                    \E nonterminals \in IterationOrders(grammar.value.nonterminals) :
                      grammar.value.productions[p].alts =
                        C14_Alternatives(lines, grammar.value.productions[p].lhs,
                                         nonterminals)
              /\ grammar.value.nonterminals =
                    {C14_Owner(lines, k) : k \in DOMAIN lines} \ {None}

\* A rule, another rule, then a continuation line with two alternatives that
\* are added after the alternatives of the second rule.
C14_Witness ==
  /\ pc = "grammar" /\ origin = "parse_grammar" /\ grammar.ok
  /\ Len(SplitLines(text)) = 3
  /\ C14_IsCont(Strip(SplitLines(text)[3]))
  /\ \E p \in DOMAIN grammar.value.productions :
        /\ grammar.value.productions[p].lhs = <<"A">>
        /\ Len(grammar.value.productions[p].alts) = 4

C14_WitnessError ==
  /\ pc = "grammar" /\ ~grammar.ok /\ grammar.line_no = 3
  /\ grammar.message = "continuation without rule"

\* The first rule line of the text (0 if there is none).
C15_FirstRule(lines) ==
  LET rules == {k \in DOMAIN lines : C14_IsRule(Strip(lines[k]))}
  IN  IF rules = {} THEN 0 ELSE CHOOSE k \in rules : \A j \in rules : k <= j

\* The text before the first arrow of a rule line, trimmed, without the
\* angle brackets of the form <Name>.
C15_NormalizedLhs(line) ==
  LET arrows == {i \in 0 .. Len(line) - 1 :
                   StartsWith(line, <<"-", ">">>, i) \/ StartsWith(line, <<"→">>, i)}
      cut == IF \E i \in arrows : StartsWith(line, <<"-", ">">>, i)
             THEN CHOOSE i \in arrows :
                    /\ StartsWith(line, <<"-", ">">>, i)
                    /\ \A j \in arrows : StartsWith(line, <<"-", ">">>, j) => i <= j
             ELSE CHOOSE i \in arrows : \A j \in arrows : i <= j
      lhs == Strip(SubSeq(line, 1, cut))
  IN  IF Len(lhs) >= 3 /\ lhs[1] = "<" /\ lhs[Len(lhs)] = ">"
         /\ Strip(SubSeq(lhs, 2, Len(lhs) - 1)) # <<>>
      THEN Strip(SubSeq(lhs, 2, Len(lhs) - 1))
      ELSE lhs

\* C15: the start symbol of every Grammar built by parse_grammar is the
\* normalized left-hand side of the first rule line of the text, and it is a
\* key of the production mapping with at least one alternative.
C15_StartSymbol ==
  (pc = "grammar" /\ origin = "parse_grammar" /\ grammar.ok) =>
    LET lines == SplitLines(text)
        g     == grammar.value
    IN  /\ C15_FirstRule(lines) # 0
        /\ g.start_symbol = C15_NormalizedLhs(Strip(lines[C15_FirstRule(lines)]))
        /\ g.start_symbol \in g.nonterminals
        /\ \E p \in DOMAIN g.productions :
              /\ g.productions[p].lhs = g.start_symbol
              /\ Len(g.productions[p].alts) >= 1

C15_Witness ==
  /\ pc = "grammar" /\ origin = "parse_grammar" /\ grammar.ok
  /\ text = Text_Expr
  /\ grammar.value.start_symbol = <<"E","x","p","r">>

C15_WitnessLaterLine ==
  /\ pc = "grammar" /\ origin = "parse_grammar" /\ grammar.ok
  /\ C15_FirstRule(SplitLines(text)) = 2
  /\ Cardinality(grammar.value.nonterminals) = 2
  /\ grammar.value.start_symbol = <<"A">>

\* The alternatives of a right-hand side without "<": the texts between the
\* bars outside quoted literals, each with whether it holds an empty quoted
\* literal; inside a literal a backslash escapes a quote or a backslash.
\* open = 0 outside a literal, 1 just after its opening quote, 2 later in it.
RECURSIVE C16_Scan(_, _, _, _, _, _)
C16_Scan(rhs, i, done, current, empty, open) ==
  IF i >= Len(rhs)
  THEN [closed |-> open = 0,
        alts   |-> Append(done, [text |-> Strip(current), empty |-> empty])]
  ELSE LET ch == At(rhs, i) IN
    IF open = 0
    THEN IF ch = "|"
         THEN C16_Scan(rhs, i + 1,
                       Append(done, [text |-> Strip(current), empty |-> empty]),
                       <<>>, FALSE, 0)
         ELSE C16_Scan(rhs, i + 1, done, Append(current, ch), empty,
                       IF ch = "\"" THEN 1 ELSE 0)
    ELSE IF ch = "\\" /\ i + 1 < Len(rhs) /\ At(rhs, i + 1) \in {"\"", "\\"}
    THEN C16_Scan(rhs, i + 2, done, current \o <<ch, At(rhs, i + 1)>>, empty, 2)
    ELSE IF ch = "\""
    THEN C16_Scan(rhs, i + 1, done, Append(current, ch), empty \/ open = 1, 0)
    ELSE C16_Scan(rhs, i + 1, done, Append(current, ch), empty, 2)

C16_EpsilonTexts == {<<"ε">>, <<"e","p","s","i","l","o","n">>, <<"\"","\"">>}

\* C16: in a rule S -> rhs, an alternative whose trimmed text is exactly ε,
\* epsilon or "" becomes the empty symbol sequence at its position among the
\* alternatives, and an empty quoted literal inside an alternative that is
\* not exactly "" makes parse_grammar raise GrammarError.
C16_EpsilonAlternatives ==
  ( /\ pc = "grammar" /\ origin = "parse_grammar"
    /\ StartsWith(text, RulePrefix, 0)
    /\ ~Contains(text, <<"\n">>) /\ ~Contains(text, <<"<">>) ) =>
    LET scan == C16_Scan(Slice(text, Len(RulePrefix), Len(text)), 0, <<>>, <<>>,
                         FALSE, 0)
    IN  scan.closed =>
          /\ (\E k \in DOMAIN scan.alts :
                 scan.alts[k].empty /\ scan.alts[k].text # <<"\"","\"">>)
               => ~grammar.ok
          /\ grammar.ok =>
               LET alts == grammar.value.productions[1].alts IN
               /\ Len(alts) = Len(scan.alts)
               /\ \A k \in DOMAIN alts :
                     scan.alts[k].text \in C16_EpsilonTexts => alts[k] = <<>>

C16_Witness ==
  /\ pc = "grammar" /\ text = Text_Eps3 /\ grammar.ok
  /\ grammar.value.productions[1].alts = << <<<<"a">>>>, <<>>, <<>> >>

C16_WitnessInside ==
  /\ pc = "grammar" /\ text = Text_EpsInside /\ ~grammar.ok
  /\ grammar.message = "empty literal"

\* The candidate lists _tokenize_input_variants can return for the input of
\* the state, one for each iteration order of the terminal set.
C17_Variants ==
  {_tokenize_input_variants(input_text, terminals) :
     terminals \in IterationOrders(grammar.value.terminals)}

\* C17: parse_grammar returns the same result (start symbol, production
\* order, symbol order, or the same error) for a text whatever the iteration
\* order of its nonterminal set, and _tokenize_input_variants returns the
\* same ordered candidate list whatever the iteration order of the terminal
\* set.
C17_Deterministic ==
  /\ pc \in {"grammar", "tree"} => parse_grammar(text) = {grammar}
  /\ pc = "tree" => Cardinality(C17_Variants) = 1

\* Two nonterminals of which one is a prefix of the other and three
\* terminals, an input with more than one segmentation.
C17_Witness ==
  /\ pc = "tree" /\ text = Text_Prefix
  /\ grammar.value.nonterminals = {<<"S">>, <<"A">>, <<"A","B">>}
  /\ grammar.value.productions[1].alts[1] = << <<"A","B">>, <<"A">> >>
  /\ Cardinality(grammar.value.terminals) = 3
  /\ input_text = <<"a","b","a","b">>
  /\ \A token_variants \in C17_Variants : Len(token_variants) >= 4

\* text.split("\n"), from position i on
RECURSIVE C18_Split(_, _)
C18_Split(chars, i) ==
  LET j == Find(chars, <<"\n">>, i) IN
  IF j = -1 THEN <<Slice(chars, i, Len(chars))>>
  ELSE <<Slice(chars, i, j)>> \o C18_Split(chars, j + 1)

\* The number of the first line equal to header (0 if there is none).
C18_First(lines, header) ==
  LET hits == {k \in DOMAIN lines : lines[k] = header}
  IN  IF hits = {} THEN 0 ELSE CHOOSE k \in hits : \A j \in hits : k <= j

C18_Count(lines, header) == Cardinality({k \in DOMAIN lines : lines[k] = header})

C18_WitnessNoTree ==
  /\ pc = "formatted" /\ text = Text_AnBn /\ parse_tree_text = <<>>
  /\ C18_Count(C18_Split(output, 0), SECTION(<<"P","a","r","s","e"," ","T","r","e","e">>)) = 0

\* The places of the tree under the object obj at depth d: one triple
\* <<parent, n, child>> for child number n of each ParseNode object.  An
\* object is named by its depth (which gives steps_left), its memo key and its
\* index in the list stored under the key.
RECURSIVE C19_Places(_, _)
C19_Places(obj, d) ==
  UNION { { << <<d, obj.key, obj.index>>, n,
               <<d + 1, obj.kids[n].key, obj.kids[n].index>> >> }
          \cup C19_Places(obj.kids[n], d + 1) : n \in DOMAIN obj.kids }

\* C19: in the tree returned by parse_string no ParseNode object occurs as a
\* child at two places.
C19_NoSharedNode ==
  (pc = "tree" /\ tree.ok) =>
    \A p, q \in C19_Places(objects, 0) : p[3] = q[3] => p = q

\* The same without the input of Text_EpsTwice whose derivation uses A -> ε
\* twice in one right-hand side.
C19_NoSharedNodeElsewhere ==
  (pc = "tree" /\ tree.ok /\ text # Text_EpsTwice) =>
    \A p, q \in C19_Places(objects, 0) : p[3] = q[3] => p = q

\* A child that is the str "ε" and not a ParseNode.
C20_IsMarker(child) == DOMAIN child = {"marker"}

\* The labels of the terminal leaves of the tree under node, left to right.
RECURSIVE C20_Leaves(_)
C20_Leaves(node) ==
  IF C20_IsMarker(node) THEN <<>>
  ELSE IF node.children = <<>> THEN <<node.symbol>>
  ELSE Concat([k \in DOMAIN node.children |-> C20_Leaves(node.children[k])])

\* The right-hand sides of symbol in g.
C20_Rhs(g, symbol) ==
  UNION {Range(g.productions[p].alts) :
           p \in {q \in DOMAIN g.productions : g.productions[q].lhs = symbol}}

\* Every node under node is a derivation step of g.
RECURSIVE C20_Derivation(_, _)
C20_Derivation(g, node) ==
  IF node.symbol \in g.nonterminals
  THEN \/ /\ node.children = <<EpsilonLeaf>>
          /\ <<>> \in C20_Rhs(g, node.symbol)
       \/ /\ node.children # <<>>
          /\ \A k \in DOMAIN node.children : ~C20_IsMarker(node.children[k])
          /\ [k \in DOMAIN node.children |-> node.children[k].symbol]
               \in C20_Rhs(g, node.symbol)
          /\ \A k \in DOMAIN node.children : C20_Derivation(g, node.children[k])
  ELSE /\ node.children = <<>>
       /\ node.symbol \in g.terminals

\* The candidate token sequences of input_text.
C20_Candidates == UNION {Range(token_variants) : token_variants \in C17_Variants}

\* C20: a tree returned by parse_string has the start symbol at its root,
\* under every nonterminal node the labels of a right-hand side of that
\* nonterminal (or the single marker ε for an empty one), terminals at its
\* childless nodes, and the whole of one candidate token sequence as its
\* terminal leaves read left to right.
C20_ValidDerivation ==
  (pc = "tree" /\ tree.ok) =>
    /\ tree.value.symbol = grammar.value.start_symbol
    /\ C20_Derivation(grammar.value, tree.value)
    /\ C20_Leaves(tree.value) \in C20_Candidates

C20_Witness ==
  /\ pc = "tree" /\ tree.ok /\ text = Text_TwoEps
  /\ input_text = <<" ", "a">>
  /\ tree.value.children[1].children = <<EpsilonLeaf>>
  /\ C20_Leaves(tree.value) = << <<"a">> >>

\* Derivability written apart from parse_symbol.  spans holds the triples
\* <<A, i, j>> for which nonterminal A is known to derive the tokens from
\* position i up to position j; C21_Chain tells whether the parts of rhs in
\* order derive the tokens from i up to j given spans (the last part is looked
\* at first).
RECURSIVE C21_Chain(_, _, _, _, _, _)
C21_Chain(g, toks, spans, rhs, i, j) ==
  IF rhs = <<>> THEN i = j
  ELSE LET last  == rhs[Len(rhs)]
           front == SubSeq(rhs, 1, Len(rhs) - 1)
       IN  IF last \in g.terminals
           THEN /\ j > i
                /\ At(toks, j - 1) = last
                /\ C21_Chain(g, toks, spans, front, i, j - 1)
           ELSE \E m \in i .. j :
                  /\ <<last, m, j>> \in spans
                  /\ C21_Chain(g, toks, spans, front, i, m)

\* The spans of the trees of at most k + 1 levels of nonterminals from those
\* of at most k levels, up to levels levels (or until nothing is added).
RECURSIVE C21_Spans(_, _, _, _, _)
C21_Spans(g, toks, spans, k, levels) ==
  IF k >= levels THEN spans
  ELSE LET next == {span \in g.nonterminals \X (0 .. Len(toks)) \X (0 .. Len(toks)) :
                      /\ span[2] <= span[3]
                      /\ \E rhs \in C20_Rhs(g, span[1]) :
                           C21_Chain(g, toks, spans, rhs, span[2], span[3])}
       IN  IF next = spans THEN spans
           ELSE C21_Spans(g, toks, next, k + 1, levels)

\* The start symbol has a derivation tree of the whole of toks with every
\* node at depth less than the budget max(80, 20 * len(toks)): at most
\* budget - 1 levels of nonterminals above the terminal leaves.
C21_HasDerivation(g, toks) ==
  <<g.start_symbol, 0, Len(toks)>>
    \in C21_Spans(g, toks, {}, 0, max_steps(toks) - 1)

\* C21: when the start symbol has a derivation tree of the whole token
\* sequence with every node at depth less than the budget, the call
\* parse_symbol(start, 0, budget) returns (a list holding a result that ends
\* at the input length): it does not end in a RecursionError.
C21_CompleteWithinBudget ==
  pc = "RecursionError" => ~C21_HasDerivation(grammar.value, tokens)

\* On the inputs of at most MaxInputLen characters parse_string returns a
\* tree exactly when some candidate token sequence has a derivation.
C21_CompleteOnShortInputs ==
  pc = "tree" =>
    (tree.ok <=> \E toks \in C20_Candidates :
                   C21_HasDerivation(grammar.value, toks))

\* C22 as stated: the number of nested parse_symbol calls never exceeds the
\* budget max(80, 20 * len(tokens)).
C22_DepthWithinBudget ==
  pc = "parse_symbol" => depth <= max_steps(tokens)

\* C22, amended: the outermost parse_symbol call has the budget
\* max(80, 20 * len(tokens)), each nested call has the budget of its caller
\* minus one, a call with budget <= 0 makes no nested call and returns no
\* results, so the number of nested parse_symbol calls never exceeds the
\* budget plus one (the last one is the call with budget 0).
C22_DepthWithinBudgetPlusOne ==
  pc = "parse_symbol" =>
    /\ frame.steps_left >= 0
    /\ depth + frame.steps_left = max_steps(tokens) + 1
    /\ depth <= max_steps(tokens) + 1
    /\ frame.steps_left <= 0 =>
         /\ first_call(grammar.value, frame) = None
         /\ parse_symbol(grammar.value, tokens, frame.symbol, frame.position,
                         frame.steps_left) = <<>>

C22_Witness ==
  /\ pc = "parse_symbol" /\ text = Text_LeftRec
  /\ Len(tokens) = 1
  /\ frame.steps_left = 0
  /\ depth = 81

\* The position at which the subtree under node ends when it starts at
\* position i, or -1 if some nonterminal node under it does not use the first
\* alternative, in declared order, that derives the tokens the node spans.
\* C23_EndOfChildren does the same for the children of node from child k on.
RECURSIVE C23_End(_, _, _, _, _)
RECURSIVE C23_EndOfChildren(_, _, _, _, _, _)
C23_End(g, toks, spans, node, i) ==
  IF node.symbol \notin g.nonterminals THEN i + 1
  ELSE LET alts   == ProductionsGet(g, node.symbol)
           j      == IF node.children = <<EpsilonLeaf>> THEN i
                     ELSE C23_EndOfChildren(g, toks, spans, node, 1, i)
           labels == IF node.children = <<EpsilonLeaf>> THEN <<>>
                     ELSE [k \in DOMAIN node.children |-> node.children[k].symbol]
           fits   == {a \in DOMAIN alts : C21_Chain(g, toks, spans, alts[a], i, j)}
       IN  IF j = -1 \/ fits = {} THEN -1
           ELSE IF alts[CHOOSE a \in fits : \A b \in fits : a <= b] = labels THEN j
           ELSE -1

C23_EndOfChildren(g, toks, spans, node, k, i) ==
  IF k > Len(node.children) THEN i
  ELSE LET j == C23_End(g, toks, spans, node.children[k], i) IN
       IF j = -1 THEN -1
       ELSE C23_EndOfChildren(g, toks, spans, node, k + 1, j)

\* C23: parse_string returns a tree for the first candidate token sequence,
\* in list order, that has a derivation, and none if no candidate has one;
\* in the returned tree every nonterminal node uses the first alternative, in
\* declared order, that derives the tokens the node spans (the results of an
\* earlier alternative precede those of a later one).
C23_FirstCandidateFirstAlternative ==
  pc = "tree" =>
    \E token_variants \in C17_Variants :
      LET g     == grammar.value
          found == {v \in DOMAIN token_variants :
                      C21_HasDerivation(g, token_variants[v])}
      IN  /\ tree.ok <=> found # {}
          /\ tree.ok =>
               LET toks  == token_variants[CHOOSE v \in found : \A w \in found : v <= w]
                   spans == C21_Spans(g, toks, {}, 0, max_steps(toks) - 1)
               IN  /\ C20_Leaves(tree.value) = toks
                   /\ C23_End(g, toks, spans, tree.value, 0) = Len(toks)

\* aaabbb: the first candidates (aa a bb b, ...) have no derivation.
C23_Witness ==
  /\ pc = "tree" /\ tree.ok /\ text = Text_BBlock /\ input_text = Str_aaabbb
  /\ \E token_variants \in C17_Variants :
       /\ ~C21_HasDerivation(grammar.value, token_variants[1])
       /\ C20_Leaves(tree.value) \in Range(token_variants)

\* a with S -> A | a: both alternatives derive the input.
C23_WitnessAlternatives ==
  /\ pc = "tree" /\ tree.ok /\ text = Text_Ambiguous /\ input_text = <<"a">>
  /\ tree.value.children[1].symbol = <<"A">>

\* The maximal runs of characters other than the space in raw, left to right.
C24_SpaceSplit(raw) ==
  LET plain(k) == raw[k] # " "
      starts == {i \in DOMAIN raw : plain(i) /\ (i = 1 \/ ~plain(i - 1))}
      end(i) == CHOOSE j \in i .. Len(raw) :
                  /\ \A k \in i .. j : plain(k)
                  /\ j = Len(raw) \/ ~plain(j + 1)
  IN  [n \in 1 .. Cardinality(starts) |->
         LET i == CHOOSE i \in starts : Cardinality({h \in starts : h < i}) = n - 1
         IN  SubSeq(raw, i, end(i))]

\* The candidates in the priority order of the claim, duplicates included.
C24_Priority(raw, terminals) ==
  LET spaced  == C24_SpaceSplit(raw)
      compact == SelectSeq(raw, LAMBDA c : c # " ")
  IN  (IF \E k \in DOMAIN raw : raw[k] = " " THEN <<spaced>> ELSE <<>>)
      \o _segment_text_with_terminals(compact, terminals, max_variants_default)
      \o << [k \in DOMAIN compact |-> <<compact[k]>>], <<compact>> >>

C24_FirstAt(list, item) ==
  CHOOSE k \in DOMAIN list :
    list[k] = item /\ \A j \in DOMAIN list : list[j] = item => k <= j

\* C24: _tokenize_input_variants returns no candidates for a blank text, and
\* otherwise the space-split sequence (if the trimmed text has a space), the
\* terminal segmentations of the text without its spaces, its characters and
\* the whole of it as one token, in this order and without duplicates, a
\* duplicate standing where it occurs first.
C24_VariantPriority ==
  pc = "tree" =>
    \A terminals \in IterationOrders(grammar.value.terminals) :
      LET raw      == Strip(input_text)
          returned == _tokenize_input_variants(input_text, terminals)
          priority == C24_Priority(raw, terminals)
      IN  IF raw = <<>> THEN returned = <<>>
          ELSE /\ Range(returned) = Range(priority)
               /\ \A k, j \in DOMAIN returned :
                    k < j => C24_FirstAt(priority, returned[k])
                               < C24_FirstAt(priority, returned[j])

\* ab with the terminals a, b and ab: ab, then a b (which is also the
\* character split), the whole text being a duplicate of the first.
C24_Witness ==
  /\ pc = "tree" /\ text = Text_Prefix /\ input_text = <<"a", "b">>
  /\ \E token_variants \in C17_Variants :
       token_variants = << << <<"a","b">> >>, << <<"a">>, <<"b">> >> >>

\* b a with a space: the space-split sequence comes first.
C24_WitnessSpaced ==
  /\ pc = "tree" /\ text = Text_Prefix /\ input_text = <<"b", "a", " ", "a">>
  /\ \E token_variants \in C17_Variants :
       /\ token_variants[1] = << <<"b","a">>, <<"a">> >>
       /\ Len(token_variants) = 3

\* Every way to write the rest of text from position pos on as a sequence of
\* non-empty terminals.
RECURSIVE C25_All(_, _, _)
C25_All(chars, terms, pos) ==
  IF pos = Len(chars) THEN {<<>>}
  ELSE UNION { {<<t>> \o rest : rest \in C25_All(chars, terms, pos + Len(t))} :
               t \in {u \in terms : u # <<>> /\ StartsWith(chars, u, pos)} }

\* Where two different sequences first differ.
C25_FirstDifference(v, w) ==
  CHOOSE d \in 1 .. Len(v) :
    /\ d > Len(w) \/ v[d] # w[d]
    /\ \A k \in 1 .. d - 1 : k <= Len(w) /\ v[k] = w[k]

\* C25: every sequence _segment_text_with_terminals returns for a non-empty
\* text is made of non-empty terminals of the grammar that concatenate to the
\* text; there are at most 256 of them; when fewer than 256 segmentations
\* exist from every position the result holds each segmentation of the text
\* once, and where two of them first differ the earlier one has the longer
\* terminal.
C25_Segmentations ==
  pc = "segmented" =>
    LET terms == grammar.value.terminals
        all   == C25_All(input_text, terms, 0)
    IN  /\ \A k \in DOMAIN variants :
             /\ \A n \in DOMAIN variants[k] :
                  variants[k][n] \in terms /\ variants[k][n] # <<>>
             /\ Join(<<>>, variants[k]) = input_text
        /\ Len(variants) <= max_variants_default
        /\ (\A pos \in 0 .. Len(input_text) :
              Cardinality(C25_All(input_text, terms, pos)) < max_variants_default)
           => /\ Range(variants) = all
              /\ Len(variants) = Cardinality(all)
              /\ \A k, j \in DOMAIN variants :
                   k < j =>
                     LET d == C25_FirstDifference(variants[k], variants[j])
                     IN  Len(variants[k][d]) > Len(variants[j][d])

\* aaaa with the terminals a, aa, b, bb: five segmentations, aa aa first.
C25_Witness ==
  /\ pc = "segmented" /\ text = Text_BBlock
  /\ input_text = <<"a", "a", "a", "a">>
  /\ Len(variants) = 5
  /\ variants[1] = << <<"a","a">>, <<"a","a">> >>

\* Thirteen a have 377 segmentations into a and aa: the cap is reached.
C25_WitnessCap ==
  /\ pc = "segmented" /\ text = Text_BBlock
  /\ Len(input_text) = 13
  /\ Len(variants) = max_variants_default
  /\ Cardinality(C25_All(input_text, grammar.value.terminals, 0)) = 377

\* C26: with the grammar S -> a b the input a<TAB>b is treated like a b: its
\* first candidate token sequence is a, b and the tree S[a, b] is returned.
C26_TabSeparated ==
  (pc = "tree" /\ text = Text_AB /\ input_text = <<"a", "\t", "b">>) =>
    /\ \A token_variants \in C17_Variants :
         token_variants # <<>> /\ token_variants[1] = << <<"a">>, <<"b">> >>
    /\ tree.ok
    /\ tree.value = ParseNode(<<"S">>, <<ParseNode(<<"a">>, <<>>),
                                         ParseNode(<<"b">>, <<>>)>>)

\* The same for the input a b, with a space.
C26_SpaceSeparated ==
  (pc = "tree" /\ text = Text_AB /\ input_text = <<"a", " ", "b">>) =>
    /\ \A token_variants \in C17_Variants :
         token_variants # <<>> /\ token_variants[1] = << <<"a">>, <<"b">> >>
    /\ tree.ok
    /\ tree.value = ParseNode(<<"S">>, <<ParseNode(<<"a">>, <<>>),
                                         ParseNode(<<"b">>, <<>>)>>)

\* The right-hand side of the first line of text, trimmed.
C27_Rhs == Strip(Slice(SplitLines(text)[1], Len(RulePrefix), Len(SplitLines(text)[1])))

\* The tokens of the first alternative of the first rule, and the position in
\* C27_Rhs at which token k ends (the right-hand sides of IdentTexts hold
\* neither spaces nor quotes nor angle brackets, so the tokens lie end to end).
C27_Tokens == grammar.value.productions[1].alts[1]

C27_EndOf(k) == Len(Join(<<>>, SubSeq(C27_Tokens, 1, k)))

\* C27: a nonterminal name of more than one character that starts with an
\* identifier character becomes a token only where it is not immediately
\* followed by an identifier character: it is never split off as a prefix of
\* a longer identifier.
C27_NoPrefixOfIdentifier ==
  (pc = "grammar" /\ grammar.ok /\ text \in IdentTexts) =>
    /\ Join(<<>>, C27_Tokens) = C27_Rhs
    /\ \A k \in DOMAIN C27_Tokens :
         (/\ C27_Tokens[k] \in grammar.value.nonterminals
          /\ Len(C27_Tokens[k]) > 1
          /\ is_ident_start(C27_Tokens[k][1]))
         => \/ C27_EndOf(k) = Len(C27_Rhs)
            \/ ~is_ident_char(At(C27_Rhs, C27_EndOf(k)))

\* The same for the identifier runs in which the name is followed by a
\* character that starts no nonterminal (IntValue), or is at the end (xInt),
\* and the split of aSb at the nonterminal S.
C27_BoundaryRespected ==
  (pc = "grammar" /\ grammar.ok /\ text \in IdentTexts) =>
    /\ C27_Rhs = <<"I","n","t","V","a","l","u","e">> => C27_Tokens = <<C27_Rhs>>
    /\ C27_Rhs = <<"x","I","n","t">> => C27_Tokens = << <<"x">>, <<"I","n","t">> >>
    /\ C27_Rhs = <<"a","S","b">> => C27_Tokens = << <<"a">>, <<"S">>, <<"b">> >>

\* The lines of a text of BarTexts by what they are: a line with a quoted
\* literal holds "|" or "->" inside the quotes; a line that starts with "|"
\* continues the rule before it; a line without arrow and without leading "|"
\* is no rule.
C28_Lines == SplitLines(text)

C28_HasRuleBefore(k) ==
  \E j \in 1 .. k - 1 : Contains(C28_Lines[j], <<"-", ">">>)

\* The lines on which the first pass of parse_grammar raises.
C28_FirstPassErrors ==
  {k \in DOMAIN C28_Lines :
     \/ ~Contains(C28_Lines[k], <<"-", ">">>) /\ C28_Lines[k][1] # "|"
     \/ C28_Lines[k][1] = "|" /\ ~C28_HasRuleBefore(k)}

\* The lines with an alternative that would give a symbol holding "|" or "->".
C28_BadLines ==
  {k \in DOMAIN C28_Lines : Contains(C28_Lines[k], <<"\"">>)}
    \ C28_FirstPassErrors

C28_Min(S) == CHOOSE k \in S : \A j \in S : k <= j

\* No symbol of a right-hand side of the grammar holds "->", "→" or "|".
C28_NoBarOrArrow ==
  \A p \in DOMAIN grammar.value.productions :
    \A a \in DOMAIN grammar.value.productions[p].alts :
      \A k \in DOMAIN grammar.value.productions[p].alts[a] :
        LET symbol == grammar.value.productions[p].alts[a][k]
        IN  /\ ~Contains(symbol, <<"-", ">">>)
            /\ ~Contains(symbol, <<"→">>)
            /\ ~Contains(symbol, <<"|">>)

\* C28 as stated: an alternative that would give a symbol holding "|" or an
\* arrow makes parse_grammar raise GrammarError with the line number of its
\* rule (of the first such rule if there are several, or of a line before it
\* that has an error of its own).
C28_ErrorAtRuleLine ==
  (pc = "grammar" /\ text \in BarTexts /\ C28_BadLines # {}) =>
    (~grammar.ok /\ grammar.line_no <= C28_Min(C28_BadLines))

\* C28, amended: no symbol of a right-hand side of a Grammar built by
\* parse_grammar holds "->", "→" or "|"; a "|" inside a quoted literal does
\* not separate alternatives (the literal arrives whole at the validation);
\* a text with an alternative that would give such a symbol makes
\* parse_grammar raise GrammarError, with the line number of the first such
\* rule when the first pass finds no error on any line of the text, and
\* otherwise with the line number of the first line the first pass rejects.
C28_NoBarOrArrowSymbols ==
  /\ (pc = "grammar" /\ BuiltByParseGrammar /\ grammar.ok) => C28_NoBarOrArrow
  /\ (pc = "grammar" /\ text \in BarTexts) =>
       /\ (C28_BadLines # {} \/ C28_FirstPassErrors # {}) <=> ~grammar.ok
       /\ (C28_BadLines # {} /\ C28_FirstPassErrors = {}) =>
            /\ grammar.message = "bad symbol"
            /\ grammar.line_no = C28_Min(C28_BadLines)
       /\ C28_FirstPassErrors # {} =>
            grammar.line_no = C28_Min(C28_FirstPassErrors)

\* S -> a, then | "c|d" | e: the error is that of line 2.
C28_Witness ==
  /\ pc = "grammar" /\ text \in BarTexts
  /\ Len(C28_Lines) = 2
  /\ C28_BadLines = {2}
  /\ C28_Lines[2][1] = "|"
  /\ ~grammar.ok /\ grammar.message = "bad symbol" /\ grammar.line_no = 2

\* C29: right-hand sides are tokenized against the left-hand sides of the
\* whole text: whatever the order of the rules S -> AB A, A -> a, AB -> b, the
\* alternative of S is the nonterminals AB, A, and every nonterminal has the
\* same alternatives as in any other order of the rules.
C29_ForwardReferences ==
  (pc = "grammar" /\ text \in OrderTexts) =>
    /\ grammar.ok
    /\ ProductionsGet(grammar.value, <<"S">>) = << << <<"A","B">>, <<"A">> >> >>
    /\ grammar.value.terminals = {<<"a">>, <<"b">>}
    /\ \A other \in OrderTexts : \A g \in parse_grammar(other) :
         /\ g.ok
         /\ g.value.nonterminals = grammar.value.nonterminals
         /\ g.value.terminals = grammar.value.terminals
         /\ \A lhs \in grammar.value.nonterminals :
              ProductionsGet(g.value, lhs) = ProductionsGet(grammar.value, lhs)

\* The rule of S comes first: AB and A are used before their rules.
C29_Witness ==
  /\ pc = "grammar" /\ text \in OrderTexts /\ grammar.ok
  /\ grammar.value.productions[1].lhs = <<"S">>
  /\ grammar.value.productions[3].lhs = <<"A","B">>
  /\ grammar.value.productions[1].alts = << << <<"A","B">>, <<"A">> >> >>

\* The recursion of parse_symbol without a memo table: every call computes
\* its result list anew.
RECURSIVE C30_Plain(_, _, _, _, _)
RECURSIVE C30_PlainParts(_, _, _, _, _, _, _)
C30_Plain(g, toks, symbol, position, steps_left) ==
  IF steps_left <= 0 THEN <<>>
  ELSE IF symbol \in g.terminals
  THEN IF position < Len(toks) /\ At(toks, position) = symbol
       THEN <<[node |-> ParseNode(symbol, <<>>), pos |-> position + 1]>>
       ELSE <<>>
  ELSE IF symbol \in g.nonterminals
  THEN LET alts == ProductionsGet(g, symbol) IN
       Concat([a \in DOMAIN alts |->
                 IF alts[a] = <<>>
                 THEN <<[node |-> ParseNode(symbol, <<EpsilonLeaf>>), pos |-> position]>>
                 ELSE C30_PlainParts(g, toks, symbol, steps_left, alts[a], 1,
                        <<[node |-> ParseNode(symbol, <<>>), pos |-> position]>>)])
  ELSE <<>>

C30_PlainParts(g, toks, symbol, steps_left, rhs, k, current_nodes) ==
  IF k > Len(rhs) THEN current_nodes
  ELSE C30_PlainParts(g, toks, symbol, steps_left, rhs, k + 1,
         Concat([c \in DOMAIN current_nodes |->
                   LET res == C30_Plain(g, toks, rhs[k], current_nodes[c].pos,
                                        steps_left - 1)
                   IN  [j \in DOMAIN res |->
                          [node |-> ParseNode(symbol,
                                      Append(current_nodes[c].node.children,
                                             res[j].node)),
                           pos  |-> res[j].pos]]]))

\* The candidates parse_string tried for input_text, with the memo table
\* written out.
C30_Runs(token_variants) ==
  parse_candidates_memo(grammar.value, token_variants, 1, [key \in {} |-> <<>>])

\* C30: for every candidate token sequence parse_string tries, parse_symbol
\* with the memo table returns the result list (nodes, end positions, order)
\* that the recursion without a memo table returns, no list stored while
\* parsing another candidate is read, and the tree parse_string returns is
\* the first complete parse of the last candidate tried.  (Grammars without
\* left recursion: the recursion is as deep as the input is long.)
C30_MemoTransparent ==
  (pc = "tree" /\ text # Text_LeftRec) =>
    \A token_variants \in C17_Variants :
      LET runs == C30_Runs(token_variants) IN
      /\ Len(runs) <= Len(token_variants)
      /\ \A v \in DOMAIN runs :
           /\ ~runs[v].foreign
           /\ runs[v].results =
                C30_Plain(grammar.value, token_variants[v],
                          grammar.value.start_symbol, 0,
                          max_steps(token_variants[v]))
      /\ tree.ok =>
           \E k \in DOMAIN runs[Len(runs)].results :
             /\ runs[Len(runs)].results[k].pos = Len(token_variants[Len(runs)])
             /\ runs[Len(runs)].results[k].node = tree.value

\* a with S -> A A a, A -> ε: the second call for A at position 0 is answered
\* from the memo table.
C30_Witness ==
  /\ pc = "tree" /\ tree.ok /\ text = Text_EpsTwice /\ input_text = <<"a">>
  /\ \E token_variants \in C17_Variants :
       C30_Runs(token_variants)[1].hits > 0

\* ab with S -> a b and a space-free input: more than one candidate is tried.
C30_WitnessCandidates ==
  /\ pc = "tree" /\ tree.ok /\ text = Text_BBlock /\ input_text = Str_aaabbb
  /\ \E token_variants \in C17_Variants :
       Len(C30_Runs(token_variants)) > 1

====
